---- MODULE Spec2Model ----
(***************************************************************************)
(* Verification model of the stellar-connect anchor service.               *)
(*                                                                         *)
(*   Spec      transfer lifecycle engine (Sep24Service, the SEP-6 router   *)
(*             hook context, InMemoryTransferStore)                        *)
(*   SpecAuth  SEP-10 auth issuer and nonce registry                       *)
(*   SpecToml  discovery document publisher and module mounts              *)
(*                                                                         *)
(* Spec reads the clock `now` in ticks of 15 minutes (the interactive      *)
(* token lifetime).                                                        *)
(* An optional field (T | undefined) is a set with at most one element.    *)
(***************************************************************************)
EXTENDS Integers, Sequences, FiniteSets, TLC

\* ------------------------------------------------------------------ bounds
MaxTransfers == 2
MaxProcs == 2
MaxTime == 2
MaxChallenges == 2
MaxAuthProcs == 2
MaxAuthTime == 3
MaxPublishers == 2
MaxStored == 2
MaxInitiated == 2
MaxChars == 2
MaxClientProcs == 2
MaxClock == 3
MaxRequests == 2
MaxLookupProcs == 2
MaxPollProcs == 2

\* -------------------------------------------------------- program constants
\* sep24-service.ts:15  15 * 60 * 1000 ms = 1 tick of `now`
DEFAULT_TOKEN_EXPIRATION_MS == 1

\* SpecAuth reads the clock `dateNow` in ticks of five minutes
\* nonce-store.ts:7  300_000 ms
ttl == 1
\* auth-issuer.ts:51  300 s
timeout == 1
\* auth-issuer.ts:23  24 * 60 * 60 s
tokenExpiration == 288
\* the clock-drift allowance of WebAuth.readChallengeTx, 60 * 5 s
gracePeriod == 1

\* transfer-process.ts:54  2000 ms = 1 tick of `clock`, held in 1/128 tick
pollingDelay == 128
\* transfer-process.ts:55  30000 ms = 15 ticks
maxPollingDelay == 1920

VARIABLES
    transfers,      \* InMemoryTransferStore.transfers (Map in insertion order)
    now,            \* the clock read by new Date() in the transfer engine
    proc,           \* the completeInteractive calls in flight, one slot each
    nonceStore,     \* NonceStore.store: nonce -> insertion time
    cleanupTimer,   \* NonceStore.cleanupTimer is set
    sweptAt,        \* the last interval at which the cleanup timer fired
    dateNow,        \* Date.now() in the auth issuer
    challenges,     \* the challenge envelopes handed out, indexed by nonce
    authProc,       \* the verifyChallenge calls in flight, one slot each
    mountedModules, \* AnchorServer.mountedModules
    publishers,     \* cachedToml of every TomlPublisher made by toml()
    tomlResponse,   \* the body of the last GET /.well-known/stellar.toml
    listResult,     \* the array returned by the last listByAccount call
    server,         \* the outcome of the last `new AnchorServer(config)`
    hookCalls,      \* the calls made to the hooks the routers were mounted with
    document,       \* the lines of the last text TomlPublisher.stringifyToml built
    networkClient,  \* NetworkClient.config of the client constructed
    circuitBreakers,\* NetworkClient.circuitBreakers: hostname -> CircuitBreaker
    clock,          \* Date.now() and the timers of the network client
    calls,          \* the NetworkClient.request calls in flight, one slot each
    completed,      \* the requests that reached the network and ended, in that order
    tomlDiscovery,  \* TomlDiscovery.cacheTtlMs of the discovery constructed
    cache,          \* TomlDiscovery.cache: normalized domain -> CacheEntry
    lookups,        \* the TomlDiscovery.fetch calls in flight, one slot each
    lastLookup,     \* how the last TomlDiscovery.fetch call that ended did end
    lastSuccess,    \* per domain: the last fetch that succeeded, whether clearCache
                    \* followed it, and whether clearCache was the last call made
    process,        \* the fields of one TransferProcess and its interval timer
    polls,          \* the pollStatus calls in flight, one slot each
    pollLog,        \* the times at which pollStatus issued a request
    emitted,        \* the statuses handed to the registered status callbacks
    store,          \* an InMemoryTransferStore called directly: transfers, tokenIndex
    storeCall,      \* the last update or delete made on `store` and what it returned
    lastRequest     \* the last HTTP request served by the sep24 / sep6 routers

transferVars == <<transfers, now, proc>>
authVars == <<nonceStore, cleanupTimer, sweptAt, dateNow, challenges, authProc>>
tomlVars == <<mountedModules, publishers, tomlResponse, server, document>>
routerVars == <<listResult, lastRequest, hookCalls>>
clientVars == <<networkClient, circuitBreakers, clock, calls, completed>>
discoveryVars == <<tomlDiscovery, cache, lookups, lastLookup, lastSuccess>>
processVars == <<process, polls, pollLog, emitted>>
storeVars == <<store, storeCall>>
sdkVars == <<discoveryVars, processVars, storeVars>>
vars == <<transfers, now, proc, nonceStore, cleanupTimer, sweptAt, dateNow,
          challenges, authProc, mountedModules, publishers, tomlResponse,
          listResult, lastRequest, server, hookCalls, document, networkClient,
          circuitBreakers, clock, calls, completed, tomlDiscovery, cache, lookups,
          lastLookup, lastSuccess, process, polls, pollLog, emitted, store,
          storeCall>>

Procs == 1..MaxProcs
TransferIds == 1..MaxTransfers
TransferKinds == {"deposit", "withdrawal"}

\* types.ts TransferStatus: INITIATING and INTERACTIVE are both 'incomplete'
INTERACTIVE == "incomplete"
INITIATING == "incomplete"
PENDING_USER_TRANSFER_START == "pending_user_transfer_start"
PENDING_ANCHOR == "pending_anchor"
COMPLETED == "completed"
ERROR == "error"
REFUNDED == "refunded"

\* statuses the operator pipeline passes to updateStatus in this model
OperatorStatuses == {INTERACTIVE, PENDING_ANCHOR, COMPLETED, REFUNDED}

\* The statuses the lifecycle specification passes to updateStatus: one
\* incomplete, one pending and one terminal value.
LifecycleStatuses == {INTERACTIVE, PENDING_ANCHOR, COMPLETED}

\* config.assets: USDC with both operations enabled, EURC with neither
ConfiguredAssets == {"USDC", "EURC"}
assets ==
    [a \in ConfiguredAssets |->
        IF a = "USDC" THEN [deposit |-> TRUE, withdraw |-> TRUE]
        ELSE [deposit |-> FALSE, withdraw |-> FALSE]]

\* asset codes a request may carry
AssetInputs == {"USDC", "usdc", "FAKE", "EURC"}

\* String.prototype.toUpperCase on the codes of AssetInputs
ToUpperCase(s) == IF s = "usdc" THEN "USDC" ELSE s

\* the `updates` argument of updateStatus: settlement references, each
\* either absent or supplied
Updates ==
    { << >>,
      [stellarTransactionId |-> {"tx1"}],
      [externalTransactionId |-> {"ex1"}] }

\* ------------------------------------------------------------ Sep24Service

isTerminalStatus(status) == status \in {COMPLETED, ERROR, REFUNDED}

\* getNextStatus with the two kinds exchanged
getNextStatus_KindsSwapped(status, kind) ==
    IF status = "incomplete"
    THEN (IF kind = "deposit" THEN PENDING_ANCHOR ELSE PENDING_USER_TRANSFER_START)
    ELSE status

getNextStatus(status, kind) ==
    IF status = "incomplete"
    THEN (IF kind = "deposit" THEN PENDING_USER_TRANSFER_START ELSE PENDING_ANCHOR)
    ELSE status

\* the token object built at initiation; its value is the index of the
\* transfer it is bound to (randomBytes(32) never repeats)
generateInteractiveToken(value) ==
    [token |-> value,
     createdAt |-> now,
     expiresAt |-> now + DEFAULT_TOKEN_EXPIRATION_MS,
     used |-> FALSE]

createTransfer(id, kind, assetCode, account) ==
    [id |-> id,
     account |-> account,
     kind |-> kind,
     status |-> INTERACTIVE,
     assetCode |-> assetCode,
     createdAt |-> now,
     updatedAt |-> now,
     completedAt |-> {},
     stellarTransactionId |-> {},
     externalTransactionId |-> {},
     interactiveToken |-> << >>]

\* supportedAssets check of initiateDeposit / initiateWithdrawal
AssetSupported(assetCode) ==
    ToUpperCase(assetCode) \in { ToUpperCase(a) : a \in ConfiguredAssets }

\* --------------------------------------------------- InMemoryTransferStore

StoreHas(id) == id \in 1..Len(transfers)

\* update with the id of the partial taken over the id passed
Merge_IdFromUpdates(existing, updates, id) ==
    [f \in DOMAIN existing |->
        IF f = "updatedAt" THEN now
        ELSE IF f \in DOMAIN updates THEN updates[f]
        ELSE existing[f]]
\* update(id, updates): { ...existing, ...updates, id, updatedAt: new Date() }
Merge(existing, updates, id) ==
    [f \in DOMAIN existing |->
        IF f = "id" THEN id
        ELSE IF f = "updatedAt" THEN now
        ELSE IF f \in DOMAIN updates THEN updates[f]
        ELSE existing[f]]

StoreUpdate(id, updates) ==
    [transfers EXCEPT ![id] = Merge(transfers[id], updates, id)]

\* -------------------------------------------------------- request handlers

NoResponse == [status |-> 0, code |-> "", error |-> ""]

Ok == [status |-> 200, code |-> "", error |-> ""]

\* a plain Error caught by the route handler:
\* new SepError(error.message, 'error', error.status ?? 400)
Wrapped(message) == [status |-> 400, code |-> "error", error |-> message]

Idle == [pc |-> "idle", id |-> 0, token |-> 0, status |-> "", resp |-> NoResponse]

\* POST /sep24/transactions/deposit|withdraw/interactive: asset validation,
\* createTransfer, generateInteractiveToken, store.create
Initiate(kind, assetCode, account) ==
    /\ AssetSupported(assetCode)
    /\ LET id == Len(transfers) + 1
           t == [createTransfer(id, kind, assetCode, account) EXCEPT
                    !.interactiveToken = <<generateInteractiveToken(id)>>]
       IN transfers' = Append(transfers, t)
    /\ UNCHANGED <<now, proc>>
    /\ UNCHANGED <<authVars, tomlVars, routerVars, clientVars, sdkVars>>

\* GET /sep6/deposit and /sep6/withdraw: exact-key asset lookup, then
\* store.create of a record without interactive token, then the call of
\* hooks.onDeposit / hooks.onWithdraw
Sep6Initiate(kind, assetCode, account) ==
    /\ assetCode \in ConfiguredAssets
    /\ LET id == Len(transfers) + 1
       IN /\ transfers' = Append(transfers, createTransfer(id, kind, assetCode, account))
          /\ hookCalls' = Append(hookCalls,
                [hook |-> IF kind = "deposit" THEN "sep6.onDeposit" ELSE "sep6.onWithdraw",
                 id |-> id])
    /\ UNCHANGED <<now, proc, listResult, lastRequest>>
    /\ UNCHANGED <<authVars, tomlVars, clientVars, sdkVars>>

\* the hook context of a SEP-6 transfer: updateStatus(status, message)
\* is store.update(transactionId, { status, message, updatedAt })
HookUpdateStatus(id, status) ==
    /\ StoreHas(id)
    /\ transfers[id].interactiveToken = << >>
    /\ transfers' = StoreUpdate(id, [status |-> status])
    /\ UNCHANGED <<now, proc>>
    /\ UNCHANGED <<authVars, tomlVars, routerVars, clientVars, sdkVars>>

\* the hook context of a SEP-6 transfer: setStellarTransactionId(txId)
HookSetStellarTransactionId(id, txId) ==
    /\ StoreHas(id)
    /\ transfers[id].interactiveToken = << >>
    /\ transfers' = StoreUpdate(id, [stellarTransactionId |-> {txId}])
    /\ UNCHANGED <<now, proc>>
    /\ UNCHANGED <<authVars, tomlVars, routerVars, clientVars, sdkVars>>

\* completeInteractive -> validateInteractiveToken: store.getById runs when
\* it is called; the caller resumes with a shallow copy of the record
CompleteCall(p, id, token) ==
    /\ proc[p].pc = "idle"
    /\ proc' = [proc EXCEPT ![p] =
          IF StoreHas(id)
          THEN [Idle EXCEPT !.pc = "validate", !.id = id, !.token = token,
                            !.status = transfers[id].status]
          ELSE [Idle EXCEPT !.pc = "done", !.resp = Wrapped("Transfer not found")]]
    /\ UNCHANGED <<transfers, now>>
    /\ UNCHANGED <<authVars, tomlVars, routerVars, clientVars, sdkVars>>

\* validateInteractiveToken without the test of the used flag
ValidateInteractiveToken_NoUsedCheck(tok, token) ==
    IF tok = << >> THEN "Transfer has no interactive token"
    ELSE IF tok[1].token # token THEN "Invalid token"
    ELSE IF tok[1].expiresAt < now THEN "Token expired"
    ELSE "ok"

\* the checks of validateInteractiveToken after the await: the copy shares
\* the token object with the stored record, so `used` is the stored flag
ValidateInteractiveToken(tok, token) ==
    IF tok = << >> THEN "Transfer has no interactive token"
    ELSE IF tok[1].token # token THEN "Invalid token"
    ELSE IF tok[1].used THEN "Token already used"
    ELSE IF tok[1].expiresAt < now THEN "Token expired"
    ELSE "ok"

CompleteValidate(p) ==
    /\ proc[p].pc = "validate"
    /\ LET r == ValidateInteractiveToken(transfers[proc[p].id].interactiveToken,
                                         proc[p].token)
       IN proc' = [proc EXCEPT ![p] =
             IF r = "ok" THEN [@ EXCEPT !.pc = "update"]
             ELSE [Idle EXCEPT !.pc = "done", !.resp = Wrapped(r)]]
    /\ UNCHANGED <<transfers, now>>
    /\ UNCHANGED <<authVars, tomlVars, routerVars, clientVars, sdkVars>>

\* completeInteractive after validation: mark the token used and
\* store.update(id, { status: getNextStatus(copy), interactiveToken })
CompleteUpdate(p) ==
    /\ proc[p].pc = "update"
    /\ LET id == proc[p].id
           t == transfers[id]
           tok == [t.interactiveToken[1] EXCEPT !.used = TRUE]
       IN transfers' = StoreUpdate(id,
              [status |-> getNextStatus(proc[p].status, t.kind),
               interactiveToken |-> <<tok>>])
    /\ proc' = [proc EXCEPT ![p] = [Idle EXCEPT !.pc = "done", !.resp = Ok]]
    /\ UNCHANGED now
    /\ UNCHANGED <<authVars, tomlVars, routerVars, clientVars, sdkVars>>

\* the response of POST /interactive/complete is sent; the slot is free
Return(p) ==
    /\ proc[p].pc = "done"
    /\ proc' = [proc EXCEPT ![p] = Idle]
    /\ UNCHANGED <<transfers, now>>
    /\ UNCHANGED <<authVars, tomlVars, routerVars, clientVars, sdkVars>>

\* updateStatus builds store.update(id, { status, completedAt, ...updates })
UpdateStatusPartial(status, updates) ==
    [f \in {"status", "completedAt"} \cup DOMAIN updates |->
        IF f = "status" THEN status
        ELSE IF f = "completedAt"
             THEN (IF isTerminalStatus(status) THEN {now} ELSE {})
        ELSE updates[f]]

\* Sep24Service.updateStatus. Its getById only tests that the record exists
\* and records are never removed, so the call takes effect at its
\* store.update; an unknown id changes nothing.
UpdateStatus(id, status, updates) ==
    /\ StoreHas(id)
    /\ transfers' = StoreUpdate(id, UpdateStatusPartial(status, updates))
    /\ UNCHANGED <<now, proc>>
    /\ UNCHANGED <<authVars, tomlVars, routerVars, clientVars, sdkVars>>

Tick ==
    /\ now < MaxTime
    /\ now' = now + 1
    /\ UNCHANGED <<transfers, proc>>
    /\ UNCHANGED <<authVars, tomlVars, routerVars, clientVars, sdkVars>>

\* ------------------------------------------------ NonceStore, AuthIssuer

AuthProcs == 1..MaxAuthProcs
Nonces == 1..MaxChallenges

\* the client account of the challenges and a second key
ClientKey == "GA"
OtherKey == "GB"

\* the signatures a client puts on the envelope before returning it
SignatureSets == { {}, {ClientKey}, {OtherKey}, {ClientKey, OtherKey} }

\* what Horizon answers for the client account: the call throws (the
\* account is unknown, or the request timed out), or the account with its
\* signers and medium threshold
HorizonResponses ==
    { [found |-> FALSE, error |-> "404", signers |-> {}, med_threshold |-> 0],
      [found |-> FALSE, error |-> "timeout", signers |-> {}, med_threshold |-> 0],
      [found |-> TRUE, error |-> "",
       signers |-> {[key |-> ClientKey, weight |-> 1]},
       med_threshold |-> 0],
      [found |-> TRUE, error |-> "",
       signers |-> {[key |-> ClientKey, weight |-> 1], [key |-> OtherKey, weight |-> 1]},
       med_threshold |-> 2] }

NoAuthResponse == [status |-> 0, code |-> "", error |-> "", token |-> {}]

\* a slot keeps the envelope of its call (nonce, signatures) and the time
\* at which the call was made
AuthIdle == [pc |-> "idle", nonce |-> 0, sigs |-> {}, at |-> 0, resp |-> NoAuthResponse]

\* POST /auth catches a plain Error: new SepError(message, 'error', 400)
AuthWrapped(message) ==
    [status |-> 400, code |-> "error", error |-> message, token |-> {}]

\* NonceStore.has
NonceHas(nonce) == nonce \in DOMAIN nonceStore

\* NonceStore.add
NonceAdd(nonce) ==
    IF NonceHas(nonce) THEN nonceStore
    ELSE [n \in DOMAIN nonceStore \cup {nonce} |->
             IF n = nonce THEN dateNow ELSE nonceStore[n]]

\* NonceStore.clearExpired
clearExpired ==
    [n \in { m \in DOMAIN nonceStore : ~(dateNow - nonceStore[m] > ttl) } |->
        nonceStore[n]]

\* the time-bounds test of WebAuth.readChallengeTx
ValidTimebounds(ch) ==
    /\ dateNow >= ch.minTime - gracePeriod
    /\ dateNow <= ch.maxTime + gracePeriod

\* WebAuth.verifyChallengeTxSigners: the signers found, or the error thrown
verifyChallengeTxSigners(ch, sigs, accountSigners) ==
    IF ~ValidTimebounds(ch) THEN [error |-> "The transaction has expired", found |-> {}]
    ELSE IF sigs \cap accountSigners = {}
         THEN [error |-> "None of the given signers match the transaction signatures",
               found |-> {}]
    ELSE IF sigs \ accountSigners # {}
         THEN [error |-> "Transaction has unrecognized signatures", found |-> {}]
    ELSE [error |-> "", found |-> sigs \cap accountSigners]

\* the weight of the account signers that signed
RECURSIVE SignatureWeight(_, _)
SignatureWeight(signers, signedByList) ==
    IF signers = {} THEN 0
    ELSE LET s == CHOOSE x \in signers : TRUE
         IN (IF s.key \in signedByList THEN s.weight ELSE 0)
            + SignatureWeight(signers \ {s}, signedByList)

\* createChallenge returning the envelope without nonceStore.add
CreateChallenge_NoNonceAdd(client) ==
    /\ Len(challenges) < MaxChallenges
    /\ challenges' = Append(challenges,
          [client |-> client, minTime |-> dateNow, maxTime |-> dateNow + timeout])
    /\ UNCHANGED <<nonceStore, cleanupTimer, sweptAt, dateNow, authProc>>
    /\ UNCHANGED <<transferVars, tomlVars, routerVars, clientVars, sdkVars>>
\* AuthIssuer.createChallenge: buildChallengeTx with a fresh nonce, then
\* nonceStore.add(nonce)
CreateChallenge(client) ==
    /\ Len(challenges) < MaxChallenges
    /\ LET nonce == Len(challenges) + 1
       IN /\ challenges' = Append(challenges,
                [client |-> client, minTime |-> dateNow, maxTime |-> dateNow + timeout])
          /\ nonceStore' = NonceAdd(nonce)
    /\ UNCHANGED <<cleanupTimer, sweptAt, dateNow, authProc>>
    /\ UNCHANGED <<transferVars, tomlVars, routerVars, clientVars, sdkVars>>

\* AuthIssuer.verifyChallenge up to the Horizon call: readChallengeTx
VerifyCall(p, nonce, sigs) ==
    /\ authProc[p].pc = "idle"
    /\ nonce \in 1..Len(challenges)
    /\ authProc' = [authProc EXCEPT ![p] =
          IF ValidTimebounds(challenges[nonce])
          THEN [AuthIdle EXCEPT !.pc = "lookup", !.nonce = nonce, !.sigs = sigs,
                                !.at = dateNow]
          ELSE [AuthIdle EXCEPT !.pc = "done", !.nonce = nonce, !.sigs = sigs,
                                !.at = dateNow,
                                !.resp = AuthWrapped("The transaction has expired")]]
    /\ UNCHANGED <<nonceStore, cleanupTimer, sweptAt, dateNow, challenges>>
    /\ UNCHANGED <<transferVars, tomlVars, routerVars, clientVars, sdkVars>>

\* the outcome of verifyChallenge after the Horizon call, for the envelope
\* of `nonce` carrying signatures `sigs`
VerifyOutcome(nonce, sigs, horizon) ==
    LET ch == challenges[nonce]
        accountSigners == IF horizon.found THEN { s.key : s \in horizon.signers }
                          ELSE {ch.client}
        signed == verifyChallengeTxSigners(ch, sigs, accountSigners)
    IN IF signed.error # "" THEN AuthWrapped(signed.error)
       ELSE IF horizon.found
               /\ SignatureWeight(horizon.signers, signed.found) < horizon.med_threshold
            THEN AuthWrapped("Invalid challenge: signature weight is less than required threshold")
       ELSE IF ~NonceHas(nonce) THEN AuthWrapped("Invalid or expired nonce")
       ELSE [status |-> 200, code |-> "", error |-> "",
             token |-> {[iss |-> "domain", sub |-> ch.client, iat |-> dateNow,
                         exp |-> dateNow + tokenExpiration]}]

VerifyFinish(p, horizon) ==
    /\ authProc[p].pc = "lookup"
    /\ authProc' = [authProc EXCEPT ![p] =
          [@ EXCEPT !.pc = "done",
                    !.resp = VerifyOutcome(authProc[p].nonce, authProc[p].sigs, horizon)]]
    /\ UNCHANGED <<nonceStore, cleanupTimer, sweptAt, dateNow, challenges>>
    /\ UNCHANGED <<transferVars, tomlVars, routerVars, clientVars, sdkVars>>

\* the response of POST /auth is sent; the slot is free
AuthReturn(p) ==
    /\ authProc[p].pc = "done"
    /\ authProc' = [authProc EXCEPT ![p] = AuthIdle]
    /\ UNCHANGED <<nonceStore, cleanupTimer, sweptAt, dateNow, challenges>>
    /\ UNCHANGED <<transferVars, tomlVars, routerVars, clientVars, sdkVars>>

\* the setInterval callback of the NonceStore constructor, once per interval
Sweep ==
    /\ cleanupTimer
    /\ sweptAt < dateNow
    /\ nonceStore' = clearExpired
    /\ sweptAt' = dateNow
    /\ UNCHANGED <<cleanupTimer, dateNow, challenges, authProc>>
    /\ UNCHANGED <<transferVars, tomlVars, routerVars, clientVars, sdkVars>>

\* NonceStore.destroy (AnchorServer.destroy -> AuthIssuer.destroy)
Destroy ==
    /\ cleanupTimer
    /\ cleanupTimer' = FALSE
    /\ UNCHANGED <<nonceStore, sweptAt, dateNow, challenges, authProc>>
    /\ UNCHANGED <<transferVars, tomlVars, routerVars, clientVars, sdkVars>>

\* five minutes pass; a set timer has fired for the current interval
AuthTick ==
    /\ dateNow < MaxAuthTime
    /\ cleanupTimer => sweptAt = dateNow
    /\ dateNow' = dateNow + 1
    /\ UNCHANGED <<nonceStore, cleanupTimer, sweptAt, challenges, authProc>>
    /\ UNCHANGED <<transferVars, tomlVars, routerVars, clientVars, sdkVars>>

\* --------------------------------------------- AnchorServer, TomlPublisher

Modules == {"sep10", "sep24", "sep6"}

\* TomlPublisher.buildFromServer: the top-level keys of the structure
buildFromServer(mounted) ==
    {"SIGNING_KEY", "NETWORK_PASSPHRASE"}
      \cup (IF "sep10" \in mounted THEN {"WEB_AUTH_ENDPOINT"} ELSE {})
      \cup (IF "sep24" \in mounted THEN {"TRANSFER_SERVER_SEP0024"} ELSE {})
      \cup (IF "sep6" \in mounted THEN {"TRANSFER_SERVER"} ELSE {})

\* TomlPublisher.render: the cached text when there is one
render(cachedToml, mounted) ==
    IF cachedToml # << >> THEN cachedToml[1] ELSE buildFromServer(mounted)

\* AnchorServer.sep10 / sep24 / sep6: mountedModules.add
Mount(m) ==
    /\ mountedModules' = mountedModules \cup {m}
    /\ UNCHANGED <<publishers, tomlResponse, server, document>>
    /\ UNCHANGED <<transferVars, authVars, routerVars, clientVars, sdkVars>>

\* AnchorServer.toml: a new TomlPublisher with an empty cache
Toml ==
    /\ Len(publishers) < MaxPublishers
    /\ publishers' = Append(publishers, << >>)
    /\ UNCHANGED <<mountedModules, tomlResponse, server, document>>
    /\ UNCHANGED <<transferVars, authVars, routerVars, clientVars, sdkVars>>

\* GET /.well-known/stellar.toml on the router of publisher i
FetchToml(i) ==
    /\ i \in 1..Len(publishers)
    /\ LET doc == render(publishers[i], mountedModules)
       IN /\ publishers' = [publishers EXCEPT ![i] = <<doc>>]
          /\ tomlResponse' = <<doc>>
    /\ UNCHANGED <<mountedModules, server, document>>
    /\ UNCHANGED <<transferVars, authVars, routerVars, clientVars, sdkVars>>

\* ------------------------------- InMemoryTransferStore.listByAccount

Accounts == {ClientKey, OtherKey}
ListAssetCodes == {"USDC", "XLM"}
\* the creation times of the records handed to store.create: before,
\* at and after the instant the noOlderThan filter names
CreatedAts == 1..3

\* FindByAccountOptions: every field is optional
ListOptions ==
    [assetCode : {{}, {"USDC"}},
     kind : {{}, {"deposit"}},
     noOlderThan : {{}, {2}},
     limit : {{}} \cup { {l} : l \in {-1, 0, 1, 2} }]

\* store.create(transfer) of a record the caller built
StoreCreate(kind, assetCode, account, createdAt) ==
    /\ LET id == Len(transfers) + 1
       IN transfers' = Append(transfers,
             [createTransfer(id, kind, assetCode, account) EXCEPT
                 !.createdAt = createdAt, !.updatedAt = createdAt])
    /\ UNCHANGED <<now, proc, listResult, lastRequest>>
    /\ UNCHANGED <<authVars, tomlVars, hookCalls, clientVars, sdkVars>>

\* the option filters of listByAccount: results.filter(...) for each
\* option that is set
filter(results, options) ==
    LET byAsset == IF options.assetCode = {} THEN results
                   ELSE SelectSeq(results, LAMBDA t : t.assetCode \in options.assetCode)
        byKind == IF options.kind = {} THEN byAsset
                  ELSE SelectSeq(byAsset, LAMBDA t : t.kind \in options.kind)
    IN IF options.noOlderThan = {} THEN byKind
       ELSE SelectSeq(byKind, LAMBDA t : \A c \in options.noOlderThan : t.createdAt >= c)

\* Array.prototype.sort with (a, b) => b.createdAt - a.createdAt: stable,
\* an element goes behind every element that is not older than it
RECURSIVE InsertSorted(_, _)
InsertSorted(sorted, t) ==
    IF sorted = << >> THEN <<t>>
    ELSE IF Head(sorted).createdAt >= t.createdAt
         THEN <<Head(sorted)>> \o InsertSorted(Tail(sorted), t)
         ELSE <<t>> \o sorted

RECURSIVE sort(_)
sort(results) ==
    IF results = << >> THEN << >>
    ELSE InsertSorted(sort(SubSeq(results, 1, Len(results) - 1)),
                      results[Len(results)])

\* results.slice(0, limit) when options.limit is truthy and positive
slice(results, limit) ==
    IF limit = {} THEN results
    ELSE LET l == CHOOSE x \in limit : TRUE
         IN IF l # 0 /\ l > 0
            THEN SubSeq(results, 1, IF l < Len(results) THEN l ELSE Len(results))
            ELSE results

\* listByAccount with the limit applied before the sort
listByAccount_LimitBeforeSort(account, options) ==
    LET owned == SelectSeq(transfers, LAMBDA t : t.account = account)
    IN sort(slice(filter(owned, options), options.limit))

listByAccount(account, options) ==
    LET owned == SelectSeq(transfers, LAMBDA t : t.account = account)
    IN slice(sort(filter(owned, options)), options.limit)

ListByAccount(account, options) ==
    /\ listResult' = listByAccount(account, options)
    /\ UNCHANGED <<transfers, now, proc, lastRequest>>
    /\ UNCHANGED <<authVars, tomlVars, hookCalls, clientVars, sdkVars>>

\* ------------------------------------------- AnchorServer constructor

\* a string by its length in UTF-16 code units (String.length) and its
\* length in octets once encoded for the HMAC key
JwtSecretInputs ==
    { [units |-> 0, octets |-> 0],       \* ''
      [units |-> 31, octets |-> 31],     \* 31 ASCII characters
      [units |-> 32, octets |-> 32],     \* 32 ASCII characters
      [units |-> 16, octets |-> 32],     \* 16 two-octet characters
      [units |-> 33, octets |-> 33] }

DomainInputs == {"", "   ", "example.com", " example.com "}
SecretKeyInputs == {"", "INVALID_KEY", "SVALID"}
NetworkInputs ==
    {"public", "testnet", "futurenet", "standalone", "mainnet", "invalid"}
AssetsInputs == { {}, {"USDC"}, {"USDC", "EURC"} }

ServerConfigs ==
    [domain : DomainInputs, secretKey : SecretKeyInputs, jwtSecret : JwtSecretInputs,
     assets : AssetsInputs, network : NetworkInputs]

\* String.prototype.trim on the domains of DomainInputs
trim(s) == IF s = "   " THEN "" ELSE IF s = " example.com " THEN "example.com" ELSE s

\* Keypair.fromSecret(secretKey) returns, rather than throws
ValidSecret(secretKey) == secretKey = "SVALID"

validNetworks == {"public", "testnet", "futurenet", "standalone", "mainnet"}

\* AnchorServer.validateConfig: the message of the error thrown, "" if none
validateConfig(config) ==
    IF config.domain = "" \/ trim(config.domain) = "" THEN "domain is required"
    ELSE IF config.secretKey = "" THEN "secretKey is required"
    ELSE IF ~ValidSecret(config.secretKey)
    THEN "Invalid secretKey: must be a valid Stellar secret key starting with S"
    ELSE IF config.jwtSecret.units = 0 THEN "jwtSecret is required"
    ELSE IF config.jwtSecret.units < 32
    THEN "jwtSecret must be at least 32 characters long"
    ELSE IF config.assets = {} THEN "At least one asset must be configured"
    ELSE IF config.network \notin validNetworks THEN "Invalid network"
    ELSE ""

\* no AnchorServer has been constructed
NoServer ==
    [status |-> "none", config |-> << >>, error |-> "", collaborators |-> {}]

\* new AnchorServer(config): validateConfig first, then the keypair, the
\* store, the AuthIssuer (whose NonceStore sets the sweeper) and the
\* TransferManager
Construct(config) ==
    /\ LET message == validateConfig(config)
       IN server' =
             IF message # ""
             THEN [status |-> "thrown", config |-> <<config>>, error |-> message,
                   collaborators |-> {}]
             ELSE [status |-> "constructed", config |-> <<config>>, error |-> "",
                   collaborators |-> {"keypair", "transferStore", "authIssuer",
                                      "cleanupTimer", "transferManager"}]
    /\ UNCHANGED <<mountedModules, publishers, tomlResponse, document>>
    /\ UNCHANGED <<transferVars, authVars, routerVars, clientVars, sdkVars>>

\* ------------------------------------------------ TomlPublisher text

\* A string is a sequence of symbols: an ordinary piece of text, or one
\* of the characters the TOML grammar treats specially.
BACKSLASH == "BACKSLASH"
QUOTE == "QUOTE"
LF == "LF"
CR == "CR"
TAB == "TAB"
\* a control character other than LF, CR and TAB, such as U+0008
CTRL == "CTRL"

\* the domains of the servers whose document is rendered
DocDomains ==
    {"localhost", "localhost:3000", "127.0.0.1:3000", "localhost.example.com",
     "example.com"}

\* String.prototype.startsWith on the domains of DocDomains
startsWith(domain, prefix) ==
    IF prefix = "localhost:" THEN domain = "localhost:3000"
    ELSE IF prefix = "localhost"
         THEN domain \in {"localhost", "localhost:3000", "localhost.example.com"}
    ELSE IF prefix = "127.0.0.1" THEN domain = "127.0.0.1:3000"
    ELSE FALSE

\* AnchorServer.deriveNetworkPassphrase
deriveNetworkPassphrase(network) ==
    IF network \in {"public", "mainnet"}
    THEN "Public Global Stellar Network ; September 2015"
    ELSE IF network = "testnet" THEN "Test SDF Network ; September 2015"
    ELSE IF network = "futurenet" THEN "Test SDF Future Network ; October 2022"
    ELSE "Standalone Network ; February 2017"

\* TomlPublisher.getProtocol
getProtocol(domain) ==
    IF domain = "localhost" \/ startsWith(domain, "localhost:") THEN "http" ELSE "https"

\* TomlPublisher.buildSepUrl: `${protocol}://${domain}${path}`
buildSepUrl(domain, path) == <<getProtocol(domain), "://", domain, path>>

\* AnchorServer.getBaseUrl: `${protocol}://${domain}`
getBaseUrl(config) ==
    LET domain == trim(config.domain)
    IN IF startsWith(domain, "http://") \/ startsWith(domain, "https://")
       THEN <<domain>>
       ELSE LET isLocal == startsWith(domain, "localhost")
                              \/ startsWith(domain, "127.0.0.1")
            IN <<IF isLocal THEN "http" ELSE "https", "://", domain>>

\* the assets of a configuration in the order of Object.entries
RECURSIVE Entries(_)
Entries(codes) ==
    IF codes = {} THEN << >>
    ELSE LET first == CHOOSE c \in codes : \A d \in codes : c = "USDC" \/ d # "USDC"
         IN <<first>> \o Entries(codes \ {first})

\* TomlPublisher.mapAssetsToCurrencies: for each asset the fields of its
\* CurrencyInfo that are defined (status is always set)
mapAssetsToCurrencies(config) ==
    LET isTestnet == config.network \in {"testnet", "futurenet", "standalone"}
        defaultStatus == IF isTestnet THEN "test" ELSE "live"
        codes == Entries(config.assets)
    IN [i \in 1..Len(codes) |->
          LET rawStatus == config.assetStatus
              isNative == codes[i] \in {"native", "XLM"}
          IN [code |-> IF isNative THEN "native" ELSE codes[i],
              status |-> {IF rawStatus \in {"live", "test"} THEN rawStatus
                          ELSE defaultStatus},
              name |-> codes[i], desc |-> codes[i]]]
\* a string value and a boolean value of the structure
StringValue(chars) == [type |-> "string", chars |-> chars]
BooleanValue(b) == [type |-> "boolean", chars |-> <<b>>]

\* the fields of one CurrencyInfo in the order of appendCurrencyFields,
\* fields that are undefined left out
CurrencyEntries(currency) ==
    <<[key |-> "code", value |-> StringValue(<<currency.code>>)]>>
      \o (IF currency.status = {} THEN << >>
          ELSE <<[key |-> "status",
                  value |-> StringValue(<<CHOOSE s \in currency.status : TRUE>>)]>>)
      \o <<[key |-> "name", value |-> StringValue(<<currency.name>>)],
           [key |-> "desc", value |-> StringValue(<<currency.desc>>)],
           [key |-> "is_asset_anchored", value |-> BooleanValue("false")],
           [key |-> "anchor_asset_type", value |-> StringValue(<<"crypto">>)]>>

\* TomlPublisher.buildTomlStructure with the currencies stringifyToml adds:
\* the sections of the document, each a header and its key/value entries
buildTomlStructure(config, mounted) ==
    LET top ==
            <<[key |-> "SIGNING_KEY", value |-> StringValue(<<"GSERVER">>)],
              [key |-> "NETWORK_PASSPHRASE",
               value |-> StringValue(<<deriveNetworkPassphrase(config.network)>>)]>>
            \o (IF "sep10" \in mounted
                THEN <<[key |-> "WEB_AUTH_ENDPOINT",
                        value |-> StringValue(buildSepUrl(config.domain, "/auth"))]>>
                ELSE << >>)
            \o (IF "sep24" \in mounted
                THEN <<[key |-> "TRANSFER_SERVER_SEP0024",
                        value |-> StringValue(buildSepUrl(config.domain, "/sep24"))]>>
                ELSE << >>)
            \o (IF "sep6" \in mounted
                THEN <<[key |-> "TRANSFER_SERVER",
                        value |-> StringValue(buildSepUrl(config.domain, "/sep6"))]>>
                ELSE << >>)
        documentation ==
            IF config.meta = {} THEN << >>
            ELSE <<[header |-> "[DOCUMENTATION]",
                    entries |-> <<[key |-> "org_name",
                                   value |-> StringValue(
                                       (CHOOSE m \in config.meta : TRUE).orgName)]>>]>>
        currencies == mapAssetsToCurrencies(config)
    IN <<[header |-> "", entries |-> top]>>
         \o documentation
         \o [i \in 1..Len(currencies) |->
               [header |-> "[[CURRENCIES]]", entries |-> CurrencyEntries(currencies[i])]]

\* String.prototype.replace(/c/g, replacement) on a sequence of symbols
RECURSIVE replace(_, _, _)
replace(str, c, replacement) ==
    IF str = << >> THEN << >>
    ELSE (IF Head(str) = c THEN replacement ELSE <<Head(str)>>)
           \o replace(Tail(str), c, replacement)

\* TomlPublisher.escapeTomlString
escapeTomlString(str) ==
    replace(replace(replace(replace(replace(str,
        BACKSLASH, <<BACKSLASH, BACKSLASH>>),
        QUOTE, <<BACKSLASH, QUOTE>>),
        LF, <<BACKSLASH, "n">>),
        CR, <<BACKSLASH, "r">>),
        TAB, <<BACKSLASH, "t">>)

\* TomlPublisher.toTomlKeyValue: the line `key = "text"` or `key = text`
toTomlKeyValue(key, value) ==
    IF value.type = "string"
    THEN [kind |-> "kv", key |-> key, quoted |-> TRUE,
          text |-> escapeTomlString(value.chars)]
    ELSE [kind |-> "kv", key |-> key, quoted |-> FALSE, text |-> value.chars]

\* the lines stringifyToml pushes for the entries of a section: an empty
\* line stands before WEB_AUTH_ENDPOINT
RECURSIVE EntryLines(_)
EntryLines(entries) ==
    IF entries = << >> THEN << >>
    ELSE (IF Head(entries).key = "WEB_AUTH_ENDPOINT" THEN <<[kind |-> "blank"]>>
          ELSE << >>)
           \o <<toTomlKeyValue(Head(entries).key, Head(entries).value)>>
           \o EntryLines(Tail(entries))

\* the lines stringifyToml pushes for one section
SectionLines(section) ==
    (IF section.header = "" THEN << >>
     ELSE <<[kind |-> "blank"], [kind |-> "header", header |-> section.header]>>)
      \o EntryLines(section.entries)

\* TomlPublisher.stringifyToml: the lines of the text
RECURSIVE stringifyToml(_)
stringifyToml(structure) ==
    IF structure = << >> THEN << >>
    ELSE SectionLines(Head(structure)) \o stringifyToml(Tail(structure))

\* ---- a standard TOML parser, as far as the document uses the grammar
\* (TOML v1.0.0: basic strings, booleans, tables and arrays of tables)

\* the escape sequences of a basic string the document can contain: the
\* character after the backslash and the character the pair stands for
Unescape(c) ==
    CASE c = BACKSLASH -> <<BACKSLASH>>
      [] c = QUOTE -> <<QUOTE>>
      [] c = "n" -> <<LF>>
      [] c = "r" -> <<CR>>
      [] c = "t" -> <<TAB>>
      [] OTHER -> << >>

\* the text between the quotes of a basic string, parsed: a backslash
\* starts an escape sequence; an unescaped quote ends the string before its
\* closing quote; control characters other than tab may not appear
RECURSIVE parseBasicString(_)
parseBasicString(text) ==
    IF text = << >> THEN [ok |-> TRUE, chars |-> << >>]
    ELSE IF Head(text) = BACKSLASH
    THEN IF Len(text) < 2 \/ Unescape(text[2]) = << >>
         THEN [ok |-> FALSE, chars |-> << >>]
         ELSE LET rest == parseBasicString(Tail(Tail(text)))
              IN [ok |-> rest.ok,
                  chars |-> IF rest.ok THEN Unescape(text[2]) \o rest.chars ELSE << >>]
    ELSE IF Head(text) \in {QUOTE, LF, CR, CTRL}
    THEN [ok |-> FALSE, chars |-> << >>]
    ELSE LET rest == parseBasicString(Tail(text))
         IN [ok |-> rest.ok,
             chars |-> IF rest.ok THEN <<Head(text)>> \o rest.chars ELSE << >>]

\* the value of a key/value line, parsed
parseValue(line) ==
    IF line.quoted
    THEN LET str == parseBasicString(line.text)
         IN [ok |-> str.ok, value |-> StringValue(str.chars)]
    ELSE [ok |-> line.text \in {<<"true">>, <<"false">>}, value |-> BooleanValue(line.text[1])]

\* the headers of tables, which may be defined once, and of arrays of
\* tables, where each header starts a new table
TableHeaders == {"[DOCUMENTATION]"}
ArrayHeaders == {"[[PRINCIPALS]]", "[[CURRENCIES]]"}

\* the parser reads the lines in order into the tables read so far; a key
\* defined twice in one table, a table defined twice and a value that does
\* not parse are errors
RECURSIVE parseLines(_, _)
parseLines(lines, tables) ==
    IF lines = << >> THEN [ok |-> TRUE, tables |-> tables]
    ELSE LET line == Head(lines)
             current == tables[Len(tables)]
         IN CASE line.kind = "blank" -> parseLines(Tail(lines), tables)
              [] line.kind = "header" ->
                    IF \/ line.header \notin TableHeaders \cup ArrayHeaders
                       \/ /\ line.header \in TableHeaders
                          /\ \E i \in 1..Len(tables) : tables[i].header = line.header
                    THEN [ok |-> FALSE, tables |-> << >>]
                    ELSE parseLines(Tail(lines),
                             Append(tables, [header |-> line.header, entries |-> << >>]))
              [] line.kind = "kv" ->
                    LET parsed == parseValue(line)
                    IN IF \/ ~parsed.ok
                          \/ \E i \in 1..Len(current.entries) :
                                current.entries[i].key = line.key
                       THEN [ok |-> FALSE, tables |-> << >>]
                       ELSE parseLines(Tail(lines),
                                [tables EXCEPT ![Len(tables)].entries =
                                    Append(@, [key |-> line.key, value |-> parsed.value])])

\* the document parsed from its first line, the root table being open
parseToml(lines) == parseLines(lines, <<[header |-> "", entries |-> << >>]>>)

\* the keys of a structure: table, position among the tables and key
Keys(structure) ==
    UNION { { <<structure[i].header, i, structure[i].entries[j].key>> :
                j \in 1..Len(structure[i].entries) } : i \in 1..Len(structure) }
\* the publisher of a constructed server renders its document
Stringify ==
    /\ server.status = "constructed"
    /\ document' = stringifyToml(buildTomlStructure(server.config[1], mountedModules))
    /\ UNCHANGED <<mountedModules, publishers, tomlResponse, server>>
    /\ UNCHANGED <<transferVars, authVars, routerVars, clientVars, sdkVars>>

\* the configurations of the servers whose document is rendered: valid
\* ones, varying the domain and network, the status of the asset, and the
\* organization name; MaxChars bounds the length of the name
NameSymbols == {"a", "n", BACKSLASH, QUOTE, LF, CR, TAB, CTRL}
RECURSIVE Strings(_)
Strings(n) ==
    IF n = 0 THEN { << >> }
    ELSE LET shorter == Strings(n - 1)
         IN shorter \cup { Append(s, c) : s \in shorter, c \in NameSymbols }
AssetStatuses == {"", "live", "test", "dead", "private"}
DocumentConfigs ==
    [domain : DocDomains, secretKey : {"SVALID"},
     jwtSecret : {[units |-> 32, octets |-> 32]}, assets : {{"USDC"}},
     network : validNetworks, assetStatus : {""}, meta : {{}}]
      \cup [domain : {"example.com"}, secretKey : {"SVALID"},
            jwtSecret : {[units |-> 32, octets |-> 32]}, assets : {{"USDC"}, {"USDC", "XLM"}},
            network : validNetworks, assetStatus : AssetStatuses, meta : {{}}]
      \cup [domain : {"example.com"}, secretKey : {"SVALID"},
            jwtSecret : {[units |-> 32, octets |-> 32]}, assets : {{"USDC"}},
            network : {"testnet"}, assetStatus : {""},
            meta : { {[orgName |-> s]} : s \in Strings(MaxChars) }]

\* ------------------------------------------------ NetworkClient (core)

\* the hostnames requested and the slots of the calls in flight
Hosts == {"a.example", "b.example"}
ClientProcs == 1..MaxClientProcs

\* the configurations a client is constructed with, times in units of one
\* tick of the clock: RequestConfigs vary the retries and their delay,
\* BreakerConfigs the threshold and window of the circuit breakers
RequestConfigs ==
    [timeout : {1}, maxRetries : {0, 1, 2}, retryDelay : {1, 2},
     circuitBreakerThreshold : {2}, circuitBreakerWindow : {2}]
BreakerConfigs ==
    [timeout : {1}, maxRetries : {0}, retryDelay : {1},
     circuitBreakerThreshold : {1, 2}, circuitBreakerWindow : {1}]
      \cup [timeout : {1}, maxRetries : {1}, retryDelay : {1},
            circuitBreakerThreshold : {1}, circuitBreakerWindow : {1}]

\* no client constructed yet
NoClient ==
    [timeout |-> 0, maxRetries |-> 0, retryDelay |-> 0,
     circuitBreakerThreshold |-> 0, circuitBreakerWindow |-> 0, constructed |-> FALSE]

\* a hostname without an entry in the circuitBreakers map, and the fields
\* of a new CircuitBreaker
NoBreaker == [exists |-> FALSE, failures |-> 0, lastFailureTime |-> 0, isOpen |-> FALSE]
NewBreaker == [exists |-> TRUE, failures |-> 0, lastFailureTime |-> 0, isOpen |-> FALSE]

\* how a fetch settles: a response with its status, a rejection with a
\* network error, or the rejection caused by controller.abort()
FetchOutcomes ==
    [kind : {"response"}, status : {200, 499, 500}]
      \cup [kind : {"error", "abort"}, status : {0}]

\* a slot with no request call in it
ClientIdle ==
    [pc |-> "idle", host |-> "", attempt |-> 0, fetches |-> 0, issuedAt |-> 0,
     settledAt |-> 0, delays |-> << >>, outcomes |-> << >>,
     status |-> 0, error |-> ""]

\* new NetworkClient(config)
NewNetworkClient(config) ==
    /\ ~networkClient.constructed
    /\ networkClient' =
          [timeout |-> config.timeout, maxRetries |-> config.maxRetries,
           retryDelay |-> config.retryDelay,
           circuitBreakerThreshold |-> config.circuitBreakerThreshold,
           circuitBreakerWindow |-> config.circuitBreakerWindow, constructed |-> TRUE]
    /\ UNCHANGED <<circuitBreakers, clock, calls, completed>>
    /\ UNCHANGED <<transferVars, authVars, tomlVars, routerVars, sdkVars>>

\* NetworkClient.getCircuitBreaker: the map after the lookup
getCircuitBreaker(host) ==
    IF circuitBreakers[host].exists THEN circuitBreakers
    ELSE [circuitBreakers EXCEPT ![host] = NewBreaker]

\* CircuitBreaker.recordSuccess
recordSuccess(breaker) == [breaker EXCEPT !.failures = 0, !.isOpen = FALSE]

\* CircuitBreaker.recordFailure at time t
recordFailure_Late(breaker, t) ==
    LET failures == IF t - breaker.lastFailureTime > networkClient.circuitBreakerWindow
                    THEN 1 ELSE breaker.failures + 1
    IN [breaker EXCEPT !.failures = failures, !.lastFailureTime = t,
                       !.isOpen = IF failures > networkClient.circuitBreakerThreshold
                                  THEN TRUE ELSE @]
recordFailure(breaker, t) ==
    LET failures == IF t - breaker.lastFailureTime > networkClient.circuitBreakerWindow
                    THEN 1 ELSE breaker.failures + 1
    IN [breaker EXCEPT !.failures = failures, !.lastFailureTime = t,
                       !.isOpen = IF failures >= networkClient.circuitBreakerThreshold
                                  THEN TRUE ELSE @]

\* CircuitBreaker.shouldAllow at time t: the answer and the breaker after it
shouldAllow_KeepsCount(breaker, t) ==
    IF ~breaker.isOpen THEN [allow |-> TRUE, breaker |-> breaker]
    ELSE IF t - breaker.lastFailureTime > networkClient.circuitBreakerWindow
    THEN [allow |-> TRUE, breaker |-> [breaker EXCEPT !.isOpen = FALSE]]
    ELSE [allow |-> FALSE, breaker |-> breaker]
shouldAllow(breaker, t) ==
    IF ~breaker.isOpen THEN [allow |-> TRUE, breaker |-> breaker]
    ELSE IF t - breaker.lastFailureTime > networkClient.circuitBreakerWindow
    THEN [allow |-> TRUE, breaker |-> [breaker EXCEPT !.isOpen = FALSE, !.failures = 0]]
    ELSE [allow |-> FALSE, breaker |-> breaker]

\* Math.pow(2, n) for n >= 0
RECURSIVE pow2(_)
pow2(n) == IF n = 0 THEN 1 ELSE 2 * pow2(n - 1)

\* the argument of this.delay before the given attempt
backoff(attempt) == networkClient.retryDelay * pow2(attempt - 1)

\* the try block throws: the fetch rejected, or the status is 5xx
throws_ClientErrors(outcome) == outcome.kind # "response" \/ outcome.status >= 400
throws(outcome) ==
    outcome.kind # "response" \/ (~(outcome.status \in 200..299) /\ outcome.status >= 500)

\* lastError.message after the catch block
ErrorMessage(outcome) ==
    CASE outcome.kind = "abort" -> "Request timeout"
      [] outcome.kind = "error" -> "fetch failed"
      [] outcome.status = 500 -> "HTTP 500"
      [] OTHER -> "HTTP"

\* what a finished call leaves in the record of completed requests
Completion(call, result, t) == [host |-> call.host, result |-> result, at |-> t]

\* request(url) up to its first await: the breaker of the hostname is
\* looked up and asked; the call throws, or the first fetch is issued
\* (MaxRequests bounds the calls that get as far as a fetch)
Request(p, host) ==
    /\ networkClient.constructed
    /\ calls[p].pc = "idle"
    /\ LET breakers == getCircuitBreaker(host)
           asked == shouldAllow(breakers[host], clock)
           started == Len(completed)
                        + Cardinality({q \in ClientProcs : calls[q].pc \in {"fetch", "delay"}})
       IN /\ asked.allow => started < MaxRequests
          /\ circuitBreakers' = [breakers EXCEPT ![host] = asked.breaker]
          /\ IF ~asked.allow
             THEN /\ calls' = [calls EXCEPT ![p] =
                        [ClientIdle EXCEPT !.pc = "thrown", !.host = host,
                                           !.error = "Circuit breaker open"]]
                  /\ completed' = completed
             ELSE /\ calls' = [calls EXCEPT ![p] =
                        [ClientIdle EXCEPT !.pc = "fetch", !.host = host,
                                           !.fetches = 1, !.issuedAt = clock]]
                  /\ completed' = completed
    /\ UNCHANGED <<networkClient, clock>>
    /\ UNCHANGED <<transferVars, authVars, tomlVars, routerVars, sdkVars>>

\* the awaited fetch settles and the call runs to its next await, its
\* return or its throw; the abort is only possible once the timeout passed
\* (the times of a call that is over are not kept)
FetchSettle(p, outcome) ==
    /\ calls[p].pc = "fetch"
    /\ outcome.kind = "abort" => clock - calls[p].issuedAt >= networkClient.timeout
    /\ LET call == [calls[p] EXCEPT !.outcomes = Append(@, outcome), !.settledAt = clock]
           breaker == circuitBreakers[call.host]
       IN IF ~throws(outcome)
          THEN /\ circuitBreakers' =
                     [circuitBreakers EXCEPT ![call.host] = recordSuccess(breaker)]
               /\ calls' = [calls EXCEPT ![p] =
                     [call EXCEPT !.pc = "returned", !.status = outcome.status,
                                  !.issuedAt = 0, !.settledAt = 0]]
               /\ completed' = Append(completed, Completion(call, "success", clock))
          ELSE IF call.attempt = networkClient.maxRetries
          THEN /\ circuitBreakers' =
                     [circuitBreakers EXCEPT ![call.host] = recordFailure(breaker, clock)]
               /\ calls' = [calls EXCEPT ![p] =
                     [call EXCEPT !.pc = "thrown", !.error = ErrorMessage(outcome),
                                  !.issuedAt = 0, !.settledAt = 0]]
               /\ completed' = Append(completed, Completion(call, "failure", clock))
          ELSE /\ calls' = [calls EXCEPT ![p] =
                     [call EXCEPT !.pc = "delay", !.attempt = @ + 1,
                                  !.error = ErrorMessage(outcome),
                                  !.delays = Append(@, backoff(call.attempt + 1))]]
               /\ UNCHANGED <<circuitBreakers, completed>>
    /\ UNCHANGED <<networkClient, clock>>
    /\ UNCHANGED <<transferVars, authVars, tomlVars, routerVars, sdkVars>>

\* the timer of this.delay fires, not before its time, and the next fetch
\* is issued
DelayElapsed(p) ==
    /\ calls[p].pc = "delay"
    /\ clock - calls[p].settledAt >= calls[p].delays[Len(calls[p].delays)]
    /\ calls' = [calls EXCEPT ![p] =
          [@ EXCEPT !.pc = "fetch", !.fetches = @ + 1, !.issuedAt = clock]]
    /\ UNCHANGED <<networkClient, circuitBreakers, clock, completed>>
    /\ UNCHANGED <<transferVars, authVars, tomlVars, routerVars, sdkVars>>

\* the caller has the response or the error and the slot is free again
ClientReturn(p) ==
    /\ calls[p].pc \in {"returned", "thrown"}
    /\ calls' = [calls EXCEPT ![p] = ClientIdle]
    /\ UNCHANGED <<networkClient, circuitBreakers, clock, completed>>
    /\ UNCHANGED <<transferVars, authVars, tomlVars, routerVars, sdkVars>>

\* time passes
ClientTick ==
    /\ clock < MaxClock
    /\ clock' = clock + 1
    /\ UNCHANGED <<networkClient, circuitBreakers, calls, completed>>
    /\ UNCHANGED <<transferVars, authVars, tomlVars, routerVars, sdkVars>>
\* ------------------------------------------------- TomlDiscovery (core)

\* A domain argument is a sequence of pieces of text: a scheme, a host
\* name, a slash. `names` is the domain the argument stands for once it is
\* lower-cased and its scheme and trailing slash are taken off.
DiscoveryDomains ==
    {[text |-> <<"example.com">>, names |-> "example.com"],
     [text |-> <<"https://", "Example.com", "/">>, names |-> "example.com"],
     [text |-> <<"other.org", "/">>, names |-> "other.org"]}

\* String.prototype.toLowerCase on one piece of text
toLowerCase(piece) ==
    CASE piece = "Example.com" -> "example.com"
      [] OTHER -> piece

\* TomlDiscovery.normalizeDomain
normalizeDomain(domain) ==
    LET lower == [i \in 1..Len(domain) |-> toLowerCase(domain[i])]
        noScheme == IF lower # << >> /\ Head(lower) \in {"http://", "https://"}
                    THEN Tail(lower) ELSE lower
    IN IF noScheme # << >> /\ noScheme[Len(noScheme)] = "/"
       THEN SubSeq(noScheme, 1, Len(noScheme) - 1) ELSE noScheme

\* the keys the cache can get, the slots of the fetch calls in flight and
\* the documents a server can answer with
CacheKeys == { normalizeDomain(d.text) : d \in DiscoveryDomains }
LookupProcs == 1..MaxLookupProcs
Documents == {"toml 1", "toml 2"}

\* how networkClient.get and the parse of its text end: a response that is
\* ok with a document, one that is ok with text that does not parse, or one
\* that is not ok
LookupOutcomes ==
    [kind : {"ok"}, data : Documents]
      \cup [kind : {"invalid toml", "not ok"}, data : {""}]

\* no CacheEntry under the key, no call in the slot, no call that ended,
\* no success on record
NoEntry == [present |-> FALSE, data |-> "", timestamp |-> 0]
LookupIdle == [pc |-> "idle", key |-> << >>, names |-> ""]
NoLookup == [pc |-> "", names |-> "", network |-> FALSE, data |-> "", error |-> ""]
NoSuccess == [valid |-> FALSE, data |-> "", at |-> 0, cleared |-> FALSE]

\* new TomlDiscovery({ cacheTtlMs })
NewTomlDiscovery(cacheTtlMs) ==
    /\ ~tomlDiscovery.constructed
    /\ tomlDiscovery' = [constructed |-> TRUE, cacheTtlMs |-> cacheTtlMs]
    /\ UNCHANGED <<cache, lookups, lastLookup, lastSuccess>>
    /\ UNCHANGED <<transferVars, authVars, tomlVars, routerVars, clientVars, processVars, storeVars>>

\* fetch(domain) up to its await: the cached data is returned, or the
\* request is issued
DiscoveryFetch(p, domain) ==
    /\ tomlDiscovery.constructed
    /\ lookups[p].pc = "idle"
    /\ LET cacheKey == normalizeDomain(domain.text)
           cached == cache[cacheKey]
       IN IF cached.present /\ clock - cached.timestamp < tomlDiscovery.cacheTtlMs
          THEN /\ lastLookup' = [pc |-> "returned", names |-> domain.names,
                                 network |-> FALSE, data |-> cached.data, error |-> ""]
               /\ UNCHANGED lookups
          ELSE /\ lookups' = [lookups EXCEPT ![p] =
                     [pc |-> "await", key |-> cacheKey, names |-> domain.names]]
               /\ UNCHANGED lastLookup
    /\ lastSuccess' = [lastSuccess EXCEPT ![<<domain.names>>].cleared = FALSE]
    /\ UNCHANGED <<tomlDiscovery, cache>>
    /\ UNCHANGED <<transferVars, authVars, tomlVars, routerVars, clientVars, processVars, storeVars>>

\* the request of the call in slot p ends and fetch runs to its end
DiscoverySettle(p, outcome) ==
    /\ lookups[p].pc = "await"
    /\ lookups' = [lookups EXCEPT ![p] = LookupIdle]
    /\ IF outcome.kind = "ok"
       THEN /\ cache' = [cache EXCEPT ![lookups[p].key] =
                  [present |-> TRUE, data |-> outcome.data, timestamp |-> clock]]
            /\ lastLookup' = [pc |-> "returned", names |-> lookups[p].names,
                              network |-> TRUE, data |-> outcome.data, error |-> ""]
            /\ lastSuccess' = [k \in CacheKeys |->
                  IF k = <<lookups[p].names>>
                  THEN [lastSuccess[k] EXCEPT !.valid = TRUE, !.data = outcome.data,
                                              !.at = clock]
                  ELSE lastSuccess[k]]
       ELSE /\ lastLookup' = [pc |-> "thrown", names |-> lookups[p].names,
                              network |-> TRUE, data |-> "",
                              error |-> IF outcome.kind = "not ok"
                                        THEN "Failed to fetch" ELSE "Failed to parse"]
            /\ UNCHANGED <<cache, lastSuccess>>
    /\ UNCHANGED tomlDiscovery
    /\ UNCHANGED <<transferVars, authVars, tomlVars, routerVars, clientVars, processVars, storeVars>>

\* clearCache(domain): one entry, or every entry when no domain is given
\* (the empty sequence)
ClearCache(domain) ==
    /\ tomlDiscovery.constructed
    /\ cache' = IF domain.text # << >>
                THEN [cache EXCEPT ![normalizeDomain(domain.text)] = NoEntry]
                ELSE [k \in CacheKeys |-> NoEntry]
    /\ lastSuccess' = [k \in CacheKeys |->
          IF domain.text = << >> \/ k = <<domain.names>>
          THEN [lastSuccess[k] EXCEPT !.valid = FALSE, !.cleared = TRUE]
          ELSE lastSuccess[k]]
    /\ UNCHANGED <<tomlDiscovery, lookups, lastLookup>>
    /\ UNCHANGED <<transferVars, authVars, tomlVars, routerVars, clientVars, processVars, storeVars>>

\* ------------------------------------------------- sdk: TransferProcess
\* `clock` advances in ticks of the initial polling delay (2000 ms); a delay
\* is held in 1/128 of a tick, so that multiplying by 1.5 stays exact until
\* the maximum applies.
PollProcs == 1..MaxPollProcs

\* GET /transaction answers: a response carrying transaction.status, a
\* response that is not ok, or a rejected request
AnchorStatuses == {"pending_anchor", "completed", "error", "expired", "on_hold"}

PollOutcomes ==
    [ok : {TRUE}, status : AnchorStatuses] \cup {[ok |-> FALSE, status |-> ""]}

NoTimer == [active |-> FALSE, delay |-> 0, nextAt |-> 0]

PollIdle == [pc |-> "idle"]

\* the fields after construction; `timers` counts the interval timers the
\* runtime holds for this process and `disposed` records that dispose() ran
NewProcess ==
    [_id |-> FALSE, _status |-> "initiating", statusCallbacks |-> 0,
     pollingInterval |-> NoTimer, pollingDelay |-> pollingDelay,
     timers |-> 0, disposed |-> FALSE]

normalizeStatus(status) ==
    CASE status = "pending_anchor" -> "pending_anchor"
      [] status = "completed"      -> "completed"
      [] status = "expired"        -> "failed"
      [] status = "error"          -> "error"
      [] OTHER                     -> "pending_anchor"

\* setInterval(..., this.pollingDelay): the period is read once, here
startPolling(tp) ==
    IF tp.pollingInterval.active THEN tp
    ELSE [tp EXCEPT !.pollingInterval =
                        [active |-> TRUE, delay |-> tp.pollingDelay,
                         nextAt |-> clock + tp.pollingDelay \div pollingDelay],
                    !.timers = @ + 1]

stopPolling(tp) ==
    IF tp.pollingInterval.active
    THEN [tp EXCEPT !.pollingInterval = NoTimer, !.timers = @ - 1]
    ELSE tp

increasePollingDelay(tp) ==
    [tp EXCEPT !.pollingDelay =
        IF (3 * @) \div 2 < maxPollingDelay THEN (3 * @) \div 2 ELSE maxPollingDelay]

emitStatusUpdate(tp, status) ==
    IF tp.statusCallbacks > 0 THEN Append(emitted, status) ELSE emitted

\* onStatus(callback), before the process is disposed
OnStatus ==
    /\ process.statusCallbacks = 0
    /\ ~process.disposed
    /\ process' = [process EXCEPT !.statusCallbacks = 1]
    /\ UNCHANGED <<polls, pollLog, emitted>>
    /\ UNCHANGED <<transferVars, authVars, tomlVars, routerVars, clientVars, discoveryVars, storeVars>>

\* start(): the anchor accepted the transfer
ProcessStart ==
    /\ ~process._id
    /\ ~process.disposed
    /\ process' = startPolling([process EXCEPT !._id = TRUE, !._status = "interactive"])
    /\ emitted' = emitStatusUpdate(process, "interactive")
    /\ UNCHANGED <<polls, pollLog>>
    /\ UNCHANGED <<transferVars, authVars, tomlVars, routerVars, clientVars, discoveryVars, storeVars>>

TimerDue == process.pollingInterval.active /\ clock >= process.pollingInterval.nextAt

\* the interval timer fires: pollStatus() runs up to its await
PollTimer(p) ==
    /\ TimerDue
    /\ polls[p].pc = "idle"
    /\ process' = [process EXCEPT !.pollingInterval.nextAt =
                                     @ + process.pollingInterval.delay \div pollingDelay]
    /\ IF process._id
       THEN /\ polls' = [polls EXCEPT ![p] = [pc |-> "await"]]
            /\ pollLog' = Append(pollLog, clock)
       ELSE UNCHANGED <<polls, pollLog>>
    /\ UNCHANGED emitted
    /\ UNCHANGED <<transferVars, authVars, tomlVars, routerVars, clientVars, discoveryVars, storeVars>>

\* the answer to a poll arrives: the rest of pollStatus(), or the catch of
\* the timer callback when pollStatus() throws
PollSettle(p, outcome) ==
    /\ polls[p].pc = "await"
    /\ polls' = [polls EXCEPT ![p] = PollIdle]
    /\ IF outcome.ok
       THEN LET previousStatus == process._status
                status == normalizeStatus(outcome.status)
                tp == [process EXCEPT !._status = status]
            IN  /\ emitted' = IF previousStatus # status
                              THEN emitStatusUpdate(tp, status) ELSE emitted
                /\ process' = IF status \in {"completed", "failed"}
                              THEN stopPolling(tp) ELSE increasePollingDelay(tp)
       ELSE /\ process' = [stopPolling(process) EXCEPT !._status = "error"]
            /\ emitted' = emitStatusUpdate(process, "error")
    /\ UNCHANGED pollLog
    /\ UNCHANGED <<transferVars, authVars, tomlVars, routerVars, clientVars, discoveryVars, storeVars>>

dispose ==
    /\ ~process.disposed
    /\ process' = [stopPolling(process) EXCEPT !.statusCallbacks = 0, !.disposed = TRUE]
    /\ UNCHANGED <<polls, pollLog, emitted>>
    /\ UNCHANGED <<transferVars, authVars, tomlVars, routerVars, clientVars, discoveryVars, storeVars>>

\* time passes; a due interval timer fires before the next tick
PollingTick == ~TimerDue /\ ClientTick
\* ----------------------------- InMemoryTransferStore, called by its own API
StoreIds == {"id1", "id2"}

TokenValues == {"tok1", "tok2"}

\* new InMemoryTransferStore(): both maps empty; Map.get is a set with at
\* most one element
NewStore ==
    [transfers |-> [id \in StoreIds |-> {}],
     tokenIndex |-> [token \in TokenValues |-> {}]]

NoCall == [op |-> "", id |-> "", updates |-> << >>, result |-> {}, deleted |-> FALSE]

\* the records and partial records the callers hand in
OptionalTokens == {<< >>} \cup { <<generateInteractiveToken(v)>> : v \in TokenValues }

Partials ==
    {[status |-> COMPLETED], [id |-> "id2", status |-> PENDING_ANCHOR]}
    \cup { [interactiveToken |-> token] : token \in OptionalTokens }

\* the callers never hand in a token value another stored transfer holds
TokenFree(token, id) ==
    \A other \in StoreIds \ {id} : \A t \in store.transfers[other] :
        (token # << >> /\ t.interactiveToken # << >>)
            => t.interactiveToken[1].token # token[1].token

getById(id) == store.transfers[id]

getByInteractiveToken(token) ==
    UNION { getById(transferId) : transferId \in store.tokenIndex[token] }

create(id, token) ==
    /\ TokenFree(token, id)
    /\ LET transfer == [createTransfer(id, "deposit", "USDC", ClientKey) EXCEPT
                           !.interactiveToken = token]
       IN store' = [transfers |-> [store.transfers EXCEPT ![id] = {transfer}],
                    tokenIndex |->
                        IF transfer.interactiveToken # << >>
                        THEN [store.tokenIndex EXCEPT
                                 ![transfer.interactiveToken[1].token] = {id}]
                        ELSE store.tokenIndex]
    /\ UNCHANGED storeCall
    /\ UNCHANGED <<transferVars, authVars, tomlVars, routerVars, clientVars>>
    /\ UNCHANGED <<discoveryVars, processVars>>

update(id, updates) ==
    /\ "interactiveToken" \in DOMAIN updates => TokenFree(updates.interactiveToken, id)
    /\ IF store.transfers[id] = {}
       THEN /\ storeCall' = [op |-> "update", id |-> id, updates |-> updates,
                             result |-> {}, deleted |-> FALSE]
            /\ UNCHANGED store
       ELSE LET existing == CHOOSE t \in store.transfers[id] : TRUE
                updated == Merge(existing, updates, id)
            IN  /\ store' =
                     [transfers |-> [store.transfers EXCEPT ![id] = {updated}],
                      tokenIndex |->
                          IF /\ updated.interactiveToken # << >>
                             /\ "interactiveToken" \in DOMAIN updates
                             /\ updates.interactiveToken # << >>
                          THEN [store.tokenIndex EXCEPT
                                   ![updated.interactiveToken[1].token] = {id}]
                          ELSE store.tokenIndex]
                /\ storeCall' = [op |-> "update", id |-> id, updates |-> updates,
                                 result |-> {updated}, deleted |-> FALSE]
    /\ UNCHANGED <<transferVars, authVars, tomlVars, routerVars, clientVars>>
    /\ UNCHANGED <<discoveryVars, processVars>>

delete(id) ==
    /\ IF store.transfers[id] = {}
       THEN UNCHANGED store
       ELSE LET transfer == CHOOSE t \in store.transfers[id] : TRUE
            IN store' = [transfers |-> [store.transfers EXCEPT ![id] = {}],
                         tokenIndex |->
                             IF transfer.interactiveToken # << >>
                             THEN [store.tokenIndex EXCEPT
                                      ![transfer.interactiveToken[1].token] = {}]
                             ELSE store.tokenIndex]
    /\ storeCall' = [op |-> "delete", id |-> id, updates |-> << >>, result |-> {},
                     deleted |-> store.transfers[id] # {}]
    /\ UNCHANGED <<transferVars, authVars, tomlVars, routerVars, clientVars>>
    /\ UNCHANGED <<discoveryVars, processVars>>
\* ------------------------------------------- sep24 / sep6 HTTP routers

\* a request without Authorization header
NoHeader == [parts |-> 0, scheme |-> "", token |-> {}]

\* lastRequest: the route, the Authorization header and account field of
\* the request, what the guard did, whether the route handler was entered,
\* req.user, the response and the ids of the transfers in its body
NoRequest ==
    [route |-> "", authorization |-> NoHeader, account |-> {}, guard |-> "none",
     handler |-> FALSE, user |-> {}, resp |-> NoResponse, shown |-> {}]

\* errors.ts badRequest / notFound
badRequest(message) == [status |-> 400, code |-> "bad_request", error |-> message]
notFound(message) == [status |-> 404, code |-> "not_found", error |-> message]

\* the secret a presented token is signed with
JwtSecrets == {"jwtSecret", "forged"}

\* jwt.sign(payload, secret) at time iat
jwtSign(sub, iat, secret) ==
    [iss |-> "domain", sub |-> sub, iat |-> iat, exp |-> iat + tokenExpiration,
     key |-> secret]

\* the instants of SpecGuard: issue time, the last tick before expiry,
\* expiry and the tick after it
GuardTimes == {0, tokenExpiration - 1, tokenExpiration, tokenExpiration + 1}

\* the instants at which the tokens of SpecGuard are minted
IssueTimes == {0, tokenExpiration - 1}

\* the tokens a client can hold for an account: minted at an instant that
\* has passed, or signed with another secret
BearerTokens(sub) ==
    { jwtSign(sub, iat, secret) :
        iat \in {t \in IssueTimes : t <= dateNow}, secret \in JwtSecrets }

\* req.headers.authorization, split at ' ': the number of parts, the first
\* part and the token standing second
AuthorizationHeaders ==
    { NoHeader, [parts |-> 1, scheme |-> "Bearer", token |-> {}] }
      \cup [parts : {2}, scheme : {"Bearer"},
            token : { {t} : t \in BearerTokens(ClientKey) }]
      \cup [parts : {2, 3}, scheme : {"Bearer", "Basic"},
            token : {{jwtSign(ClientKey, 0, "jwtSecret")}}]

\* the headers sent to the routes mounted without authMiddleware
AnonymousHeaders ==
    { NoHeader,
      [parts |-> 2, scheme |-> "Bearer", token |-> {jwtSign(ClientKey, 0, "forged")}] }

\* jwt.verify without the expiry test
jwtVerify_IgnoreExpiry(token) == token.key = "jwtSecret"

\* jwt.verify(token, jwtSecret): signature, then exp against the clock
jwtVerify(token) == token.key = "jwtSecret" /\ ~(dateNow >= token.exp)

\* AuthIssuer.requireAuth: next() with req.user set, or the response sent
requireAuth(authHeader) ==
    IF authHeader.parts = 0
    THEN [next |-> FALSE, user |-> {},
          resp |-> [status |-> 403, code |-> "", error |-> "Missing authorization header"]]
    ELSE IF authHeader.parts # 2 \/ authHeader.scheme # "Bearer"
    THEN [next |-> FALSE, user |-> {},
          resp |-> [status |-> 403, code |-> "",
                    error |-> "Invalid authorization header format"]]
    ELSE LET token == CHOOSE t \in authHeader.token : TRUE
         IN IF jwtVerify(token)
            THEN [next |-> TRUE, user |-> {[iss |-> token.iss, sub |-> token.sub,
                                            iat |-> token.iat, exp |-> token.exp]},
                  resp |-> NoResponse]
            ELSE [next |-> FALSE, user |-> {},
                  resp |-> [status |-> 401, code |-> "",
                            error |-> "Invalid or expired token"]]

\* StrKey.isValidEd25519PublicKey on the account fields of RequestAccounts
isValidStellarAddress(address) == address \in Accounts

\* the account field of a request: absent, a G-address (the caller's own
\* under a token of OtherKey, another account's under a token of
\* ClientKey), or a string that is no address
RequestAccounts == {{}, {OtherKey}, {"not-an-address"}}

\* `Asset ${assetCode} not supported by anchor`
NotSupportedByAnchor(assetCode) ==
    IF assetCode = "FAKE" THEN "Asset FAKE not supported by anchor"
    ELSE IF assetCode = "usdc" THEN "Asset usdc not supported by anchor"
    ELSE IF assetCode = "EURC" THEN "Asset EURC not supported by anchor"
    ELSE "Asset USDC not supported by anchor"

\* InteractiveHandler with the account field of the body taken first
InteractiveHandler_BodyWins(user, body) ==
    IF body.asset_code = {}
    THEN [resp |-> badRequest("'asset_code' is required"), account |-> {}]
    ELSE IF \E a \in body.account : ~isValidStellarAddress(a)
    THEN [resp |-> badRequest("invalid account"), account |-> {}]
    ELSE LET resolvedAccount == IF body.account # {} THEN body.account
                                ELSE { u.sub : u \in user }
             assetCode == CHOOSE a \in body.asset_code : TRUE
         IN IF resolvedAccount = {}
            THEN [resp |-> badRequest("account is required"), account |-> {}]
            ELSE IF ~AssetSupported(assetCode)
            THEN [resp |-> Wrapped(NotSupportedByAnchor(assetCode)), account |-> {}]
            ELSE [resp |-> Ok, account |-> resolvedAccount]

\* the body of the POST .../interactive handlers after the guard: the
\* response, and the owner of the transfer created (none on an error)
InteractiveHandler(user, body) ==
    IF body.asset_code = {}
    THEN [resp |-> badRequest("'asset_code' is required"), account |-> {}]
    ELSE IF \E a \in body.account : ~isValidStellarAddress(a)
    THEN [resp |-> badRequest("invalid account"), account |-> {}]
    ELSE LET resolvedAccount == IF user # {} THEN { u.sub : u \in user }
                                ELSE body.account
             assetCode == CHOOSE a \in body.asset_code : TRUE
         IN IF resolvedAccount = {}
            THEN [resp |-> badRequest("account is required"), account |-> {}]
            ELSE IF ~AssetSupported(assetCode)
            THEN [resp |-> Wrapped(NotSupportedByAnchor(assetCode)), account |-> {}]
            ELSE [resp |-> Ok, account |-> resolvedAccount]

\* POST /sep24/transactions/deposit/interactive and .../withdraw/interactive
PostInteractive(kind, authHeader, body) ==
    LET g == requireAuth(authHeader)
        h == InteractiveHandler(g.user, body)
        id == Len(transfers) + 1
    IN /\ lastRequest' =
             [route |-> IF kind = "deposit"
                        THEN "POST /sep24/transactions/deposit/interactive"
                        ELSE "POST /sep24/transactions/withdraw/interactive",
              authorization |-> authHeader,
              account |-> body.account,
              guard |-> IF g.next THEN "accepted" ELSE "rejected",
              handler |-> g.next,
              user |-> g.user,
              resp |-> IF g.next THEN h.resp ELSE g.resp,
              shown |-> IF g.next /\ h.account # {} THEN {id} ELSE {}]
       /\ transfers' =
             IF g.next /\ h.account # {}
             THEN Append(transfers,
                    [createTransfer(id, kind, CHOOSE a \in body.asset_code : TRUE,
                                    CHOOSE a \in h.account : TRUE)
                       EXCEPT !.interactiveToken = <<generateInteractiveToken(id)>>])
             ELSE transfers
       /\ UNCHANGED <<now, proc, listResult>>
       /\ UNCHANGED <<authVars, tomlVars, hookCalls, clientVars, sdkVars>>

\* `Asset ${asset_code} is not supported`
IsNotSupported(asset_code) ==
    IF asset_code = "FAKE" THEN "Asset FAKE is not supported"
    ELSE IF asset_code = "usdc" THEN "Asset usdc is not supported"
    ELSE IF asset_code = "EURC" THEN "Asset EURC is not supported"
    ELSE "Asset USDC is not supported"

\* `Deposits are not enabled for ${asset_code}` and its withdrawal twin
NotEnabled(kind, asset_code) ==
    IF kind = "deposit"
    THEN (IF asset_code = "EURC" THEN "Deposits are not enabled for EURC"
          ELSE "Deposits are not enabled for USDC")
    ELSE (IF asset_code = "EURC" THEN "Withdrawals are not enabled for EURC"
          ELSE "Withdrawals are not enabled for USDC")

\* the body of the GET /sep6/deposit and /sep6/withdraw handlers up to
\* store.create: the response, and the owner of the transfer created
Sep6Handler(kind, user, query) ==
    IF user = {}
    THEN [resp |-> badRequest("account is required"), account |-> {}]
    ELSE IF query.asset_code = {}
    THEN [resp |-> badRequest("asset_code is required"), account |-> {}]
    ELSE IF kind = "withdrawal" /\ query.type = {}
    THEN [resp |-> badRequest("type is required"), account |-> {}]
    ELSE LET asset_code == CHOOSE a \in query.asset_code : TRUE
         IN IF asset_code \notin DOMAIN assets
            THEN [resp |-> badRequest(IsNotSupported(asset_code)), account |-> {}]
            ELSE IF ~(IF kind = "deposit" THEN assets[asset_code].deposit
                      ELSE assets[asset_code].withdraw)
            THEN [resp |-> badRequest(NotEnabled(kind, asset_code)), account |-> {}]
            ELSE [resp |-> Ok, account |-> { u.sub : u \in user }]

\* GET /sep6/deposit and GET /sep6/withdraw, mounted with hooks: after
\* store.create the handler awaits hooks.onDeposit / hooks.onWithdraw,
\* taken here to return
Sep6Get(kind, authHeader, query) ==
    LET g == requireAuth(authHeader)
        h == Sep6Handler(kind, g.user, query)
        id == Len(transfers) + 1
    IN /\ lastRequest' =
             [route |-> IF kind = "deposit" THEN "GET /sep6/deposit"
                        ELSE "GET /sep6/withdraw",
              authorization |-> authHeader,
              account |-> query.account,
              guard |-> IF g.next THEN "accepted" ELSE "rejected",
              handler |-> g.next,
              user |-> g.user,
              resp |-> IF g.next THEN h.resp ELSE g.resp,
              shown |-> IF g.next /\ h.account # {} THEN {id} ELSE {}]
       /\ transfers' =
             IF g.next /\ h.account # {}
             THEN Append(transfers,
                    createTransfer(id, kind, CHOOSE a \in query.asset_code : TRUE,
                                   CHOOSE a \in h.account : TRUE))
             ELSE transfers
       /\ hookCalls' =
             IF g.next /\ h.account # {}
             THEN Append(hookCalls,
                    [hook |-> IF kind = "deposit" THEN "sep6.onDeposit"
                              ELSE "sep6.onWithdraw",
                     id |-> id])
             ELSE hookCalls
       /\ UNCHANGED <<now, proc, listResult>>
       /\ UNCHANGED <<authVars, tomlVars, clientVars, sdkVars>>

\* GET /sep6/deposit and GET /sep6/withdraw when the awaited hook throws:
\* store.create has run, the catch of the handler answers with the error
Sep6GetHookThrows(kind, authHeader, query) ==
    LET g == requireAuth(authHeader)
        h == Sep6Handler(kind, g.user, query)
        id == Len(transfers) + 1
        created == g.next /\ h.account # {}
    IN /\ lastRequest' =
             [route |-> IF kind = "deposit" THEN "GET /sep6/deposit"
                        ELSE "GET /sep6/withdraw",
              authorization |-> authHeader,
              account |-> query.account,
              guard |-> IF g.next THEN "accepted" ELSE "rejected",
              handler |-> g.next,
              user |-> g.user,
              resp |-> IF ~g.next THEN g.resp
                       ELSE IF created THEN Wrapped("hook failed") ELSE h.resp,
              shown |-> {}]
       /\ transfers' =
             IF created
             THEN Append(transfers,
                    createTransfer(id, kind, CHOOSE a \in query.asset_code : TRUE,
                                   CHOOSE a \in h.account : TRUE))
             ELSE transfers
       /\ hookCalls' =
             IF created
             THEN Append(hookCalls,
                    [hook |-> IF kind = "deposit" THEN "sep6.onDeposit"
                              ELSE "sep6.onWithdraw",
                     id |-> id])
             ELSE hookCalls
       /\ UNCHANGED <<now, proc, listResult>>
       /\ UNCHANGED <<authVars, tomlVars, clientVars, sdkVars>>
\* the fields of an initiation request
InteractiveBodies ==
    [asset_code : {{}} \cup { {a} : a \in AssetInputs }, account : RequestAccounts]
Sep6Queries ==
    [asset_code : {{}} \cup { {a} : a \in AssetInputs }, account : {{}, {OtherKey}},
     type : {{"bank_account"}}]
      \cup {[asset_code |-> {"USDC"}, account |-> {}, type |-> {}]}

\* a header carrying a token the issuer minted at the current instant
FreshHeaders ==
    { [parts |-> 2, scheme |-> "Bearer", token |-> {jwtSign(sub, dateNow, "jwtSecret")}] :
        sub \in Accounts }

\* `'${assetCode}' is not a supported asset`
NotASupportedAsset(assetCode) ==
    IF assetCode = "FAKE" THEN "'FAKE' is not a supported asset"
    ELSE IF assetCode = "usdc" THEN "'usdc' is not a supported asset"
    ELSE IF assetCode = "EURC" THEN "'EURC' is not a supported asset"
    ELSE "'USDC' is not a supported asset"

\* parseInt(req.query.limit, 10); NaN is falsy to listByAccount, as absent
parseInt(limit) ==
    IF limit = {"1"} THEN {1} ELSE IF limit = {"0"} THEN {0} ELSE {}

\* the first stored transfer carrying a settlement reference
FirstWith(field, value) ==
    LET hits == { i \in 1..Len(transfers) : value \in transfers[i][field] }
    IN IF hits = {} THEN {} ELSE { CHOOSE i \in hits : \A j \in hits : i <= j }

\* the body of the GET /sep24/transaction handler: the response and the
\* transfer it shows
TransactionHandler(query) ==
    IF query.id = {} /\ query.stellar_transaction_id = {}
       /\ query.external_transaction_id = {}
    THEN [resp |-> badRequest("Missing required parameter: id, stellar_transaction_id, or external_transaction_id"),
          shown |-> {}]
    ELSE LET found ==
               IF query.id # {} THEN { i \in query.id : StoreHas(i) }
               ELSE IF query.stellar_transaction_id # {}
               THEN FirstWith("stellarTransactionId",
                              CHOOSE x \in query.stellar_transaction_id : TRUE)
               ELSE FirstWith("externalTransactionId",
                              CHOOSE x \in query.external_transaction_id : TRUE)
         IN IF found = {}
            THEN [resp |-> notFound("Transaction not found"), shown |-> {}]
            ELSE [resp |-> Ok, shown |-> found]

TransactionQueries ==
    { [id |-> i, stellar_transaction_id |-> {}, external_transaction_id |-> {}] :
        i \in {{}, {1}, {2}} }
      \cup { [id |-> {}, stellar_transaction_id |-> {"tx1"}, external_transaction_id |-> {}],
             [id |-> {}, stellar_transaction_id |-> {}, external_transaction_id |-> {"ex1"}] }

\* GET /sep24/transaction
GetTransaction(authHeader, query) ==
    LET g == requireAuth(authHeader)
        h == TransactionHandler(query)
    IN /\ lastRequest' =
             [route |-> "GET /sep24/transaction",
              authorization |-> authHeader,
              account |-> {},
              guard |-> IF g.next THEN "accepted" ELSE "rejected",
              handler |-> g.next,
              user |-> g.user,
              resp |-> IF g.next THEN h.resp ELSE g.resp,
              shown |-> IF g.next THEN h.shown ELSE {}]
       /\ UNCHANGED <<transfers, now, proc, listResult>>
       /\ UNCHANGED <<authVars, tomlVars, hookCalls, clientVars, sdkVars>>

TransactionsQueries ==
    { [asset_code |-> {}, kind |-> {}, limit |-> {}],
      [asset_code |-> {"USDC"}, kind |-> {"deposit"}, limit |-> {"1"}],
      [asset_code |-> {"FAKE"}, kind |-> {}, limit |-> {"0"}],
      [asset_code |-> {}, kind |-> {"deposit"}, limit |-> {"abc"}] }

\* GET /sep24/transactions: getTransfersByAccount(req.user.sub, options)
GetTransactions(authHeader, query) ==
    LET g == requireAuth(authHeader)
        unknown == { a \in query.asset_code : a \notin DOMAIN assets }
        list == listByAccount(CHOOSE a \in { u.sub : u \in g.user } : TRUE,
                              [assetCode |-> query.asset_code, kind |-> query.kind,
                               noOlderThan |-> {}, limit |-> parseInt(query.limit)])
        ok == g.next /\ unknown = {}
    IN /\ lastRequest' =
             [route |-> "GET /sep24/transactions",
              authorization |-> authHeader,
              account |-> {},
              guard |-> IF g.next THEN "accepted" ELSE "rejected",
              handler |-> g.next,
              user |-> g.user,
              resp |-> IF ~g.next THEN g.resp
                       ELSE IF unknown # {}
                       THEN badRequest(NotASupportedAsset(CHOOSE a \in unknown : TRUE))
                       ELSE Ok,
              shown |-> IF ok THEN { list[i].id : i \in 1..Len(list) } ELSE {}]
       /\ listResult' = IF ok THEN list ELSE listResult
       /\ UNCHANGED <<transfers, now, proc>>
       /\ UNCHANGED <<authVars, tomlVars, hookCalls, clientVars, sdkVars>>

\* GET /sep24/transaction/more_info: mounted without authMiddleware
GetMoreInfo(authHeader, id) ==
    /\ lastRequest' =
          [route |-> "GET /sep24/transaction/more_info",
           authorization |-> authHeader,
           account |-> {},
           guard |-> "none",
           handler |-> TRUE,
           user |-> {},
           resp |-> IF id = {} THEN badRequest("Missing id parameter")
                    ELSE IF \E i \in id : StoreHas(i) THEN Ok
                    ELSE notFound("Transaction not found"),
           shown |-> { i \in id : StoreHas(i) }]
    /\ UNCHANGED <<transfers, now, proc, listResult>>
    /\ UNCHANGED <<authVars, tomlVars, hookCalls, clientVars, sdkVars>>

\* POST /sep24/interactive/complete: mounted without authMiddleware; the
\* handler calls completeInteractive, whose steps answer through the slot
PostInteractiveComplete(p, authHeader, transaction_id, token) ==
    /\ proc[p].pc = "idle"
    /\ lastRequest' =
          [route |-> "POST /sep24/interactive/complete",
           authorization |-> authHeader,
           account |-> {},
           guard |-> "none",
           handler |-> TRUE,
           user |-> {},
           resp |-> IF transaction_id = {} \/ token = {}
                    THEN badRequest("Missing transaction_id or token")
                    ELSE NoResponse,
           shown |-> {}]
    /\ proc' =
          IF transaction_id = {} \/ token = {} THEN proc
          ELSE LET id == CHOOSE i \in transaction_id : TRUE
                   tok == CHOOSE t \in token : TRUE
               IN [proc EXCEPT ![p] =
                     IF StoreHas(id)
                     THEN [Idle EXCEPT !.pc = "validate", !.id = id, !.token = tok,
                                       !.status = transfers[id].status]
                     ELSE [Idle EXCEPT !.pc = "done",
                                       !.resp = Wrapped("Transfer not found")]]
    /\ UNCHANGED <<transfers, now, listResult>>
    /\ UNCHANGED <<authVars, tomlVars, hookCalls, clientVars, sdkVars>>

\* GET /sep24/info, GET /sep6/info and the GET /sep24/interactive
\* redirect: mounted without authMiddleware, no effect on the store
UnguardedRoutes == {"GET /sep24/info", "GET /sep6/info", "GET /sep24/interactive"}

GetUnguarded(route, authHeader) ==
    /\ lastRequest' =
          [route |-> route,
           authorization |-> authHeader,
           account |-> {},
           guard |-> "none",
           handler |-> TRUE,
           user |-> {},
           resp |-> IF route = "GET /sep24/interactive"
                    THEN [status |-> 302, code |-> "", error |-> ""] ELSE Ok,
           shown |-> {}]
    /\ UNCHANGED <<transfers, now, proc, listResult>>
    /\ UNCHANGED <<authVars, tomlVars, hookCalls, clientVars, sdkVars>>

\* the clock of the guard reaches the next instant of GuardTimes
ClockAdvance ==
    /\ \E t \in GuardTimes :
          /\ t > dateNow
          /\ \A u \in GuardTimes : u > dateNow => t <= u
          /\ dateNow' = t
    /\ UNCHANGED <<nonceStore, cleanupTimer, sweptAt, challenges, authProc>>
    /\ UNCHANGED <<transferVars, tomlVars, routerVars, clientVars, sdkVars>>

Init ==
    /\ transfers = << >>
    /\ now = 0
    /\ proc = [p \in Procs |-> Idle]
    /\ nonceStore = << >>
    /\ cleanupTimer = TRUE
    /\ sweptAt = 0
    /\ dateNow = 0
    /\ challenges = << >>
    /\ authProc = [p \in AuthProcs |-> AuthIdle]
    /\ mountedModules = {}
    /\ publishers = << >>
    /\ tomlResponse = << >>
    /\ server = NoServer
    /\ hookCalls = << >>
    /\ document = << >>
    /\ networkClient = NoClient
    /\ circuitBreakers = [h \in Hosts |-> NoBreaker]
    /\ clock = 0
    /\ calls = [p \in ClientProcs |-> ClientIdle]
    /\ completed = << >>
    /\ tomlDiscovery = [constructed |-> FALSE, cacheTtlMs |-> 0]
    /\ cache = [k \in CacheKeys |-> NoEntry]
    /\ lookups = [p \in LookupProcs |-> LookupIdle]
    /\ lastLookup = NoLookup
    /\ lastSuccess = [k \in CacheKeys |-> NoSuccess]
    /\ process = NewProcess
    /\ polls = [p \in PollProcs |-> PollIdle]
    /\ pollLog = << >>
    /\ emitted = << >>
    /\ store = NewStore
    /\ storeCall = NoCall
    /\ listResult = << >>
    /\ lastRequest = NoRequest

\* Spec follows one transfer through its lifecycle: every operation reads
\* and writes only the record of the id it is given. A request with a
\* wrong token changes nothing but its own response; caller 1 sends it.
Next ==
    \/ \E k \in TransferKinds : Len(transfers) = 0 /\ Initiate(k, "USDC", ClientKey)
    \/ \E k \in TransferKinds : Len(transfers) = 0 /\ Sep6Initiate(k, "USDC", ClientKey)
    \/ \E s \in LifecycleStatuses : HookUpdateStatus(1, s)
    \/ \E p \in Procs, tok \in {0, 1} : (tok = 0 => p = 1) /\ CompleteCall(p, 1, tok)
    \/ \E p \in Procs : CompleteValidate(p)
    \/ \E p \in Procs : CompleteUpdate(p)
    \/ \E p \in Procs : Return(p)
    \/ \E s \in LifecycleStatuses : UpdateStatus(1, s, << >>)
    \/ Tick

Spec == Init /\ [][Next]_vars

\* SpecStore: several transfers and the operator pipeline reporting
\* settlement references, at one instant
NextStore ==
    \/ \E k \in TransferKinds :
          Len(transfers) < MaxTransfers /\ Initiate(k, "USDC", ClientKey)
    \/ \E k \in TransferKinds :
          Len(transfers) < MaxTransfers /\ Sep6Initiate(k, "USDC", ClientKey)
    \/ \E id \in TransferIds, s \in OperatorStatuses, u \in Updates :
          UpdateStatus(id, s, u)
    \/ \E id \in TransferIds : HookSetStellarTransactionId(id, "tx1")

SpecStore == Init /\ [][NextStore]_vars

NextAuth ==
    \/ CreateChallenge(ClientKey)
    \/ \E p \in AuthProcs, n \in Nonces, sigs \in SignatureSets : VerifyCall(p, n, sigs)
    \/ \E p \in AuthProcs, h \in HorizonResponses : VerifyFinish(p, h)
    \/ \E p \in AuthProcs : AuthReturn(p)
    \/ Sweep
    \/ Destroy
    \/ AuthTick

SpecAuth == Init /\ [][NextAuth]_vars

NextToml ==
    \/ \E m \in Modules : Mount(m)
    \/ Toml
    \/ \E i \in 1..MaxPublishers : FetchToml(i)

SpecToml == Init /\ [][NextToml]_vars

\* SpecList: a store filled through create and queried by listByAccount.
\* Both services stamp createdAt = new Date() on the record right before
\* they hand it to store.create, so no record is older than a stored one.
NextList ==
    \/ \E k \in TransferKinds, a \in ListAssetCodes, acc \in Accounts, c \in CreatedAts :
          /\ Len(transfers) < MaxStored
          /\ \A i \in 1..Len(transfers) : transfers[i].createdAt <= c
          /\ StoreCreate(k, a, acc, c)
    \/ \E acc \in Accounts, o \in ListOptions : ListByAccount(acc, o)

SpecList == Init /\ [][NextList]_vars

\* SpecInit: authenticated initiation requests on both surfaces
NextInit ==
    \/ \E k \in TransferKinds, h \in FreshHeaders, b \in InteractiveBodies :
          Len(transfers) < MaxInitiated /\ PostInteractive(k, h, b)
    \/ \E k \in TransferKinds, h \in FreshHeaders, q \in Sep6Queries :
          Len(transfers) < MaxInitiated /\ Sep6Get(k, h, q)

SpecInit == Init /\ [][NextInit]_vars

\* SpecGuard: every route of the sep24 and sep6 routers, requested with
\* any Authorization header, around one transfer, while tokens expire
PlainBody == [asset_code |-> {"USDC"}, account |-> {}]
PlainQuery == [asset_code |-> {"USDC"}, account |-> {}, type |-> {"bank_account"}]

NextGuard ==
    \/ \E k \in TransferKinds, h \in AuthorizationHeaders :
          Len(transfers) = 0 /\ PostInteractive(k, h, PlainBody)
    \/ \E k \in TransferKinds, h \in AuthorizationHeaders :
          Len(transfers) = 0 /\ Sep6Get(k, h, PlainQuery)
    \/ \E h \in AuthorizationHeaders, q \in TransactionQueries : GetTransaction(h, q)
    \/ \E h \in AuthorizationHeaders, q \in TransactionsQueries : GetTransactions(h, q)
    \/ \E h \in AnonymousHeaders, id \in {{}, {1}} : GetMoreInfo(h, id)
    \/ \E h \in AnonymousHeaders, id \in {{}, {1}}, tok \in {{}, {0}, {1}} :
          PostInteractiveComplete(1, h, id, tok)
    \/ CompleteValidate(1)
    \/ CompleteUpdate(1)
    \/ Return(1)
    \/ \E r \in UnguardedRoutes, h \in AnonymousHeaders : GetUnguarded(r, h)
    \/ ClockAdvance

SpecGuard == Init /\ [][NextGuard]_vars

\* SpecStatus: two accounts initiate transfers, the operator reports
\* settlement references, and either account queries GET /sep24/transaction
NextStatus ==
    \/ \E k \in TransferKinds, h \in FreshHeaders :
          Len(transfers) < MaxInitiated /\ PostInteractive(k, h, PlainBody)
    \/ \E id \in TransferIds, u \in Updates : UpdateStatus(id, PENDING_ANCHOR, u)
    \/ \E h \in FreshHeaders, q \in TransactionQueries : GetTransaction(h, q)

SpecStatus == Init /\ [][NextStatus]_vars

\* SpecHook: SEP-6 initiations whose operator hook returns or throws
NextHook ==
    \/ \E k \in TransferKinds, h \in FreshHeaders, q \in Sep6Queries :
          Len(transfers) < MaxInitiated /\ Sep6Get(k, h, q)
    \/ \E k \in TransferKinds, h \in FreshHeaders, q \in Sep6Queries :
          Len(transfers) < MaxInitiated /\ Sep6GetHookThrows(k, h, q)

SpecHook == Init /\ [][NextHook]_vars

\* SpecAsset: interactive initiations with any spelling of the asset code,
\* and their owners listing by a configured asset code
AssetQuery(code) == [asset_code |-> {code}, kind |-> {}, limit |-> {}]

NextAsset ==
    \/ \E k \in TransferKinds, h \in FreshHeaders, b \in InteractiveBodies :
          Len(transfers) < MaxInitiated /\ PostInteractive(k, h, b)
    \/ \E h \in FreshHeaders, code \in ConfiguredAssets :
          GetTransactions(h, AssetQuery(code))

SpecAsset == Init /\ [][NextAsset]_vars

\* SpecChallenge: challenges handed out and returned to one verifyChallenge
\* call at a time, while the clock runs and the sweeper fires
NextChallenge ==
    \/ CreateChallenge(ClientKey)
    \/ \E n \in Nonces, sigs \in SignatureSets : VerifyCall(1, n, sigs)
    \/ \E h \in HorizonResponses : VerifyFinish(1, h)
    \/ AuthReturn(1)
    \/ Sweep
    \/ Destroy
    \/ AuthTick

SpecChallenge == Init /\ [][NextChallenge]_vars

\* SpecConstruct: AnchorServer constructed from every configuration
NextConstruct == \E config \in ServerConfigs : Construct(config)

SpecConstruct == Init /\ [][NextConstruct]_vars

\* SpecDocument: one server is constructed, modules are mounted on it and
\* its discovery document is rendered
NextDocument ==
    \/ \E config \in DocumentConfigs : server.status = "none" /\ Construct(config)
    \/ \E m \in Modules : server.status = "constructed" /\ Mount(m)
    \/ Stringify

SpecDocument == Init /\ [][NextDocument]_vars

\* SpecRequest follows the calls of one caller to one hostname, one after
\* the other, through every way a fetch settles.
NextRequest ==
    \/ \E config \in RequestConfigs : NewNetworkClient(config)
    \/ Request(1, "a.example")
    \/ \E outcome \in FetchOutcomes : FetchSettle(1, outcome)
    \/ DelayElapsed(1)
    \/ ClientReturn(1)
    \/ ClientTick

SpecRequest == Init /\ [][NextRequest]_vars

\* SpecBreaker follows calls to two hostnames that may be in flight at
\* once; a call takes the lowest free slot, and the calls of the client
\* that retries are made one after the other.
NextBreaker ==
    \/ \E config \in BreakerConfigs : NewNetworkClient(config)
    \/ \E p \in ClientProcs, host \in Hosts :
          /\ \A q \in 1..(p - 1) : calls[q].pc # "idle"
          /\ networkClient.maxRetries > 0 => p = 1
          /\ Request(p, host)
    \/ \E p \in ClientProcs, outcome \in FetchOutcomes :
          outcome.status \in {200, 500} /\ FetchSettle(p, outcome)
    \/ \E p \in ClientProcs : DelayElapsed(p)
    \/ \E p \in ClientProcs : ClientReturn(p)
    \/ ClientTick

SpecBreaker == Init /\ [][NextBreaker]_vars

\* SpecDiscovery follows the fetch calls of one TomlDiscovery, two of
\* which may be in flight at once, clearCache and the clock; a call takes
\* the lowest free slot.
NextDiscovery ==
    \/ \E cacheTtlMs \in {1, 2} : NewTomlDiscovery(cacheTtlMs)
    \/ \E p \in LookupProcs, domain \in DiscoveryDomains :
          (\A q \in 1..(p - 1) : lookups[q].pc # "idle") /\ DiscoveryFetch(p, domain)
    \/ \E p \in LookupProcs, outcome \in LookupOutcomes : DiscoverySettle(p, outcome)
    \/ \E domain \in {d \in DiscoveryDomains : Len(d.text) = 3}
                           \cup {[text |-> << >>, names |-> ""]} : ClearCache(domain)
    \/ ClientTick

SpecDiscovery == Init /\ [][NextDiscovery]_vars

\* one TransferProcess polling an anchor
NextPolling ==
    \/ OnStatus
    \/ ProcessStart
    \/ \E p \in PollProcs :
          (\A q \in 1..(p - 1) : polls[q].pc # "idle") /\ PollTimer(p)
    \/ \E p \in PollProcs, outcome \in PollOutcomes : PollSettle(p, outcome)
    \/ dispose
    \/ PollingTick

SpecPolling == Init /\ [][NextPolling]_vars

\* an InMemoryTransferStore driven through create, update and delete, at
\* two instants
NextIndex ==
    \/ \E id \in StoreIds, token \in OptionalTokens : create(id, token)
    \/ \E id \in StoreIds, updates \in Partials : update(id, updates)
    \/ \E id \in StoreIds : delete(id)
    \/ now = 0 /\ Tick

SpecIndex == Init /\ [][NextIndex]_vars

\* ------------------------------------------------------------------ claims

Completes(p) == proc[p].pc = "update" /\ proc'[p].pc = "done"
Validates(p) == proc[p].pc = "validate" /\ proc'[p].pc # "validate"

\* C2: of the completeInteractive calls in flight for one interactive token
\* at most one succeeds.  (stated as claimed; the code violates it)
C2_AtMostOneSuccess ==
    Cardinality({ p \in Procs : proc[p].pc = "done" /\ proc[p].resp = Ok }) <= 1

C4_Serialized ==
    [][\A p \in Procs :
          Completes(p) =>
             transfers'[proc[p].id].status =
                getNextStatus(transfers[proc[p].id].status, transfers[proc[p].id].kind)]_vars

\* C5: completedAt is set exactly when status is terminal.
\* (stated as claimed; the code violates it)
C5_CompletedAtIffTerminal ==
    \A i \in 1..Len(transfers) :
        (transfers[i].completedAt # {}) <=> isTerminalStatus(transfers[i].status)

\* C7: a created transfer starts in incomplete, and a successful
\* completeInteractive called on a transfer in incomplete stores
\* pending_user_transfer_start for a deposit, pending_anchor for a withdrawal.
C7_Transitions ==
    [][ /\ (Len(transfers') > Len(transfers)
             => transfers'[Len(transfers')].status = "incomplete")
        /\ \A p \in Procs :
             (Completes(p) /\ proc[p].status = "incomplete")
             => /\ proc'[p].resp = Ok
                /\ transfers'[proc[p].id].status =
                      (IF transfers[proc[p].id].kind = "deposit"
                       THEN "pending_user_transfer_start" ELSE "pending_anchor") ]_vars

C7_Witness ==
    /\ \E p \in Procs : proc[p].pc = "done" /\ proc[p].resp = Ok
    /\ Len(transfers) = 1
    /\ transfers[1].kind = "withdrawal"
    /\ transfers[1].status = "pending_anchor"
    /\ transfers[1].interactiveToken # << >>
    /\ transfers[1].interactiveToken[1].used

\* C8: a completion of a transfer that is no longer in incomplete leaves
\* status and completedAt as they are and marks the token used.
\* (stated as claimed; the code violates it)
C8_NoOpWhenNotIncomplete ==
    [][\A p \in Procs :
          (Completes(p) /\ transfers[proc[p].id].status # "incomplete")
          => /\ transfers'[proc[p].id].status = transfers[proc[p].id].status
             /\ transfers'[proc[p].id].completedAt = transfers[proc[p].id].completedAt
             /\ transfers'[proc[p].id].interactiveToken[1].used]_vars

\* C9: validation passes only for a stored transfer whose token equals the
\* supplied one, is not consumed and expires strictly later than now; a
\* failing call leaves the record unchanged.
\* (stated as claimed; the code violates it)
C9_ValidOnlyBeforeExpiry ==
    [][\A p \in Procs :
          Validates(p) =>
             LET tok == transfers[proc[p].id].interactiveToken
             IN /\ transfers' = transfers
                /\ proc'[p].pc = "update" =>
                      /\ tok # << >>
                      /\ tok[1].token = proc[p].token
                      /\ ~tok[1].used
                      /\ tok[1].expiresAt > now]_vars

\* C10: no two stored transfers carry the same set Stellar transaction id,
\* nor the same set external transaction id.
\* (stated as claimed; the code violates it)
C10_SettlementIdsUnique ==
    \A i, j \in 1..Len(transfers) :
        i # j =>
          /\ transfers[i].stellarTransactionId \cap transfers[j].stellarTransactionId = {}
          /\ transfers[i].externalTransactionId \cap transfers[j].externalTransactionId = {}

\* C1: a signed challenge envelope yields a bearer token for at most one
\* submission.  (stated as claimed; the code violates it)
C1_TokenAtMostOnce ==
    \A p, q \in AuthProcs :
        ( /\ p # q
          /\ authProc[p].pc = "done" /\ authProc[q].pc = "done"
          /\ authProc[p].nonce = authProc[q].nonce
          /\ authProc[p].sigs = authProc[q].sigs )
        => ~(authProc[p].resp.token # {} /\ authProc[q].resp.token # {})

\* C6: every fetch of the discovery document answers with the endpoint keys
\* of exactly the modules mounted at that moment.
\* (stated as claimed; the code violates it)
C6_FetchShowsMounted ==
    [][\A i \in 1..MaxPublishers :
          FetchToml(i) => tomlResponse' = <<buildFromServer(mountedModules)>>]_vars

\* C11: every stored transfer has updatedAt >= createdAt and, when
\* completedAt is set, completedAt >= updatedAt.
\* (stated as claimed; the code violates it)
C11_TimestampOrder ==
    \A i \in 1..Len(transfers) :
        /\ transfers[i].updatedAt >= transfers[i].createdAt
        /\ \A c \in transfers[i].completedAt : c >= transfers[i].updatedAt

\* a stored transfer passes the filters of a listByAccount call
Matches(t, account, options) ==
    /\ t.account = account
    /\ \A a \in options.assetCode : t.assetCode = a
    /\ \A k \in options.kind : t.kind = k
    /\ \A c \in options.noOlderThan : t.createdAt >= c

KnownIgnoringCase(a) ==
    \E c \in ConfiguredAssets : ToUpperCase(a) = ToUpperCase(c)

\* C13: an interactive initiation is accepted exactly when its asset code is
\* a configured code ignoring case; for an unknown code the response is HTTP
\* 400 with code bad_request and message 'Asset <code> not supported by
\* anchor', and no record is created.
\* (stated as claimed; the code violates it)
C13_UnknownAssetBadRequest ==
    [][\A k \in TransferKinds, h \in FreshHeaders, b \in InteractiveBodies :
          (PostInteractive(k, h, b) /\ b.asset_code # {} /\ b.account = {}) =>
             LET a == CHOOSE x \in b.asset_code : TRUE
             IN IF KnownIgnoringCase(a)
                THEN lastRequest'.resp = Ok /\ Len(transfers') = Len(transfers) + 1
                ELSE /\ lastRequest'.resp.status = 400
                     /\ lastRequest'.resp.code = "bad_request"
                     /\ lastRequest'.resp.error = NotSupportedByAnchor(a)
                     /\ transfers' = transfers]_vars

\* the operation `kind` is enabled in the profile of a configured asset
Enabled(kind, a) ==
    IF kind = "deposit" THEN assets[a].deposit ELSE assets[a].withdraw

\* C14: an initiation for a configured asset whose profile for the
\* operation is not enabled is answered with bad_request and creates no
\* record, on the interactive and on the programmatic surface.
\* (stated as claimed; the code violates it)
C14_DisabledOperationRejected ==
    [][\A k \in TransferKinds, h \in FreshHeaders, a \in ConfiguredAssets :
          ~Enabled(k, a) =>
             /\ \A b \in InteractiveBodies :
                   (PostInteractive(k, h, b) /\ b.asset_code = {a}) =>
                      /\ lastRequest'.resp.status = 400
                      /\ transfers' = transfers
             /\ \A q \in Sep6Queries :
                   (Sep6Get(k, h, q) /\ q.asset_code = {a}) =>
                      /\ lastRequest'.resp.status = 400
                      /\ transfers' = transfers]_vars

InteractiveRoutes ==
    {"POST /sep24/transactions/deposit/interactive",
     "POST /sep24/transactions/withdraw/interactive"}

GuardedOperations ==
    {"POST /sep24/transactions/deposit/interactive",
     "POST /sep24/transactions/withdraw/interactive",
     "GET /sep6/deposit", "GET /sep6/withdraw",
     "GET /sep24/transaction", "GET /sep24/transactions",
     "POST /sep24/interactive/complete", "GET /sep24/transaction/more_info"}

\* C15: every transfer-engine operation other than the two /info reads and
\* the /interactive redirect enters its handler only after the bearer-token
\* guard has accepted the request.
\* (stated as claimed; the code violates it)
C15_HandlerOnlyAfterGuard ==
    (lastRequest.route \in GuardedOperations /\ lastRequest.handler)
        => lastRequest.guard = "accepted"

C18_LookupFailureRejected ==
    [][\A p \in AuthProcs, h \in HorizonResponses :
          (VerifyFinish(p, h) /\ ~h.found /\ h.error # "404") =>
             /\ authProc'[p].resp.token = {}
             /\ authProc'[p].resp.status = 400]_vars

\* C19: for an account found on chain a token is issued only if the
\* signatures are a non-empty subset of the account's signers whose weights
\* sum to at least the medium threshold; with insufficient weight the call
\* fails with unauthorized (HTTP 401) and issues no token.
\* (stated as claimed; the code violates it)
C19_WeightBelowThresholdUnauthorized ==
    [][\A p \in AuthProcs, h \in HorizonResponses :
          (VerifyFinish(p, h) /\ h.found) =>
             LET sigs == authProc[p].sigs
                 keys == { s.key : s \in h.signers }
                 weight == SignatureWeight(h.signers, sigs)
             IN /\ authProc'[p].resp.token # {} =>
                      sigs # {} /\ sigs \subseteq keys /\ weight >= h.med_threshold
                /\ (sigs # {} /\ sigs \subseteq keys /\ weight < h.med_threshold) =>
                      /\ authProc'[p].resp.token = {}
                      /\ authProc'[p].resp.status = 401]_vars

\* C20: no token is issued for an envelope submitted to verifyChallenge
\* more than 300 seconds (one tick of dateNow) after createChallenge built it.
\* (stated as claimed; the code violates it)
C20_NoTokenAfterTimeout ==
    \A p \in AuthProcs :
        authProc[p].resp.token # {} =>
            authProc[p].at - challenges[authProc[p].nonce].minTime <= timeout


\* the bearer token minted now for `client`
TokenFor(client) ==
    [iss |-> "domain", sub |-> client, iat |-> dateNow, exp |-> dateNow + tokenExpiration]

\* C21 as claimed: every envelope createChallenge returned, signed by the
\* client key and verified at the instant it was built, yields a bearer
\* token for the client account, whatever Horizon answers for the account.
\* (the code violates it)
C21_FreshChallengeYieldsToken ==
    \A n \in 1..Len(challenges), h \in HorizonResponses :
        dateNow = challenges[n].minTime =>
            VerifyOutcome(n, {challenges[n].client}, h).token
               = {TokenFor(challenges[n].client)}

\* the client key alone carries the weight the account asks for
ClientKeySuffices(h, client) ==
    h.found => SignatureWeight(h.signers, {client}) >= h.med_threshold

\* C21 amended: every envelope createChallenge returned has its nonce
\* registered, so that verifying it at the instant it was built, signed by
\* the client key, yields a bearer token for the client account whenever
\* Horizon does not return the account or the client key's weight meets
\* the medium threshold of the account.
C21_FreshChallengeYieldsTokenIfWeight ==
    \A n \in 1..Len(challenges), h \in HorizonResponses :
        (dateNow = challenges[n].minTime /\ ClientKeySuffices(h, challenges[n].client)) =>
            /\ NonceHas(n)
            /\ VerifyOutcome(n, {challenges[n].client}, h).token
                  = {TokenFor(challenges[n].client)}

\* a verifyChallenge call made and finished at the instant its envelope
\* was built answered with the token of the client account
C21_Witness ==
    /\ authProc[1].pc = "done"
    /\ authProc[1].sigs = {ClientKey}
    /\ authProc[1].nonce \in 1..Len(challenges)
    /\ authProc[1].at = challenges[authProc[1].nonce].minTime
    /\ authProc[1].resp.token = {TokenFor(ClientKey)}
    /\ dateNow = authProc[1].at

\* C22: after AnchorServer.destroy no sweep runs; destroy happens only
\* when no request is in flight, and no request is accepted after it.
\* (stated as claimed; the code violates it)
C22_ShutdownDrainsThenStopsSweeper ==
    [][/\ ~cleanupTimer =>
             /\ sweptAt' = sweptAt
             /\ DOMAIN nonceStore \subseteq DOMAIN nonceStore'
             /\ ~cleanupTimer'
       /\ (cleanupTimer /\ ~cleanupTimer') =>
             \A p \in AuthProcs : authProc[p].pc = "idle"
       /\ ~cleanupTimer =>
             /\ challenges' = challenges
             /\ \A p \in AuthProcs : authProc[p].pc = "idle" => authProc'[p].pc = "idle"]_vars

\* C23: construction succeeds exactly when the domain is non-empty after
\* trimming, the secret key is valid, the JWT secret has at least 32
\* octets, assets is non-empty and the network is a known one; a failed
\* construction has created no collaborator.
\* (stated as claimed; the code violates it)
C23_ConstructIffValid ==
    \A i \in 1..Len(server.config) :
        LET config == server.config[i]
            valid == /\ trim(config.domain) # ""
                     /\ ValidSecret(config.secretKey)
                     /\ config.jwtSecret.octets >= 32
                     /\ config.assets # {}
                     /\ config.network \in validNetworks
        IN /\ server.status = "constructed" <=> valid
           /\ server.status = "thrown" <=> ~valid
           /\ server.status = "thrown" => server.collaborators = {}

\* C24: every error response of the routers carries an `error` message
\* and a `code` kind, whichever component rejected the request.
\* (stated as claimed; the code violates it)
C24_ErrorEnvelope ==
    lastRequest.resp.status >= 400 =>
        lastRequest.resp.error # "" /\ lastRequest.resp.code # ""

\* C25: every successful SEP-24 deposit initiation, withdrawal initiation
\* and interactive completion calls the hook the router was mounted with,
\* once, with the transfer concerned.
\* (stated as claimed; the code violates it)
C25_Sep24HooksInvoked ==
    [][/\ ( lastRequest' # lastRequest
            /\ lastRequest'.route \in InteractiveRoutes
            /\ lastRequest'.resp = Ok ) =>
             hookCalls' = Append(hookCalls,
                [hook |-> IF lastRequest'.route = "POST /sep24/transactions/deposit/interactive"
                          THEN "sep24.onDeposit" ELSE "sep24.onWithdraw",
                 id |-> Len(transfers')])
       /\ \A p \in Procs :
             (proc[p].pc = "update" /\ proc'[p].pc = "done" /\ proc'[p].resp = Ok) =>
                hookCalls' = Append(hookCalls,
                   [hook |-> "sep24.onInteractiveComplete", id |-> proc[p].id])]_vars

\* the lines `status = ...` of the rendered document
StatusLines == { i \in 1..Len(document) : document[i].kind = "kv" /\ document[i].key = "status" }

\* C26: in the rendered document every asset section carries the
\* configured status when that is live or test, no status when it is dead
\* or private, and otherwise test on testnet, futurenet and standalone and
\* live on public and mainnet.
\* (stated as claimed; the code violates it)
C26_CurrencyStatus ==
    document # << >> =>
        LET config == server.config[1]
            raw == config.assetStatus
            expected ==
                IF raw \in {"live", "test"} THEN {raw}
                ELSE IF raw \in {"dead", "private"} THEN {}
                ELSE IF config.network \in {"testnet", "futurenet", "standalone"}
                     THEN {"test"}
                ELSE {"live"}
        IN /\ \A i \in StatusLines : \E s \in expected : document[i].text = <<s>>
           /\ Cardinality(StatusLines) =
                 IF expected = {} THEN 0 ELSE Cardinality(config.assets)

\* the lines of the rendered document that carry an endpoint URL
EndpointLines ==
    { i \in 1..Len(document) :
        /\ document[i].kind = "kv"
        /\ document[i].key \in {"WEB_AUTH_ENDPOINT", "TRANSFER_SERVER_SEP0024",
                                "TRANSFER_SERVER"} }

\* C27: every endpoint URL of the rendered document has scheme http when
\* the domain begins with localhost or 127.0.0.1 and https otherwise, and
\* the base URL of the transfer engine has the same scheme.
\* (stated as claimed; the code violates it)
C27_SameScheme ==
    \A i \in EndpointLines :
        LET config == server.config[1]
            local == startsWith(config.domain, "localhost")
                        \/ startsWith(config.domain, "127.0.0.1")
        IN /\ document[i].text[1] = IF local THEN "http" ELSE "https"
           /\ document[i].text[1] = getBaseUrl(config)[1]

\* C28: whenever the document is rendered it parses under a standard TOML
\* parser to the key set that was emitted, every value, strings with
\* backslash, quote, newline, carriage return or tab included, is read back
\* unchanged, and the document emitted again from the parsed form has the
\* same keys.
\* (stated as claimed; the code violates it)
C28_RoundTrip ==
    [][document' # document =>
          LET structure == buildTomlStructure(server.config[1], mountedModules)
              parsed == parseToml(document')
          IN /\ parsed.ok
             /\ Keys(parsed.tables) = Keys(structure)
             /\ parsed.tables = structure
             /\ Keys(parseToml(stringifyToml(parsed.tables)).tables) = Keys(structure)]_vars

\* C29: a request call issues at most maxRetries + 1 fetches; every fetch
\* but the last settled with a network error, a timeout or a 5xx response;
\* the k-th retry was asked to wait retryDelay * 2^(k-1) and was issued no
\* sooner; a call that returned returns the first response below 500 and
\* stopped there; a call that threw made all its attempts, all failed, and
\* throws the error of the last.
C29_BoundedRetries ==
    \A p \in ClientProcs :
        LET call == calls[p]
            Failed(o) == o.kind \in {"error", "abort"} \/ o.status >= 500
        IN /\ call.fetches <= networkClient.maxRetries + 1
           /\ \A k \in 1..Len(call.outcomes) : k < call.fetches => Failed(call.outcomes[k])
           /\ call.fetches > 0 => Len(call.delays) = call.attempt
           /\ \A k \in 1..Len(call.delays) :
                 call.delays[k] = networkClient.retryDelay * (2 ^ (k - 1))
           /\ (call.pc = "fetch" /\ call.attempt > 0) =>
                 call.issuedAt - call.settledAt >= call.delays[call.attempt]
           /\ (call.pc = "returned") =>
                 /\ call.fetches = Len(call.outcomes)
                 /\ ~Failed(call.outcomes[call.fetches])
                 /\ call.status = call.outcomes[call.fetches].status
                 /\ call.status < 500
           /\ (call.pc = "thrown" /\ call.fetches > 0) =>
                 /\ call.fetches = networkClient.maxRetries + 1
                 /\ Len(call.outcomes) = call.fetches
                 /\ \A k \in 1..call.fetches : Failed(call.outcomes[k])
                 /\ call.error = ErrorMessage(call.outcomes[call.fetches])

\* a call threw after its last retry, made after the doubled delay
C29_Witness ==
    \E p \in ClientProcs :
        /\ calls[p].pc = "thrown"
        /\ calls[p].fetches = 3
        /\ calls[p].delays = <<networkClient.retryDelay, 2 * networkClient.retryDelay>>

\* the requests to a hostname that reached the network, in the order in
\* which they ended
HostLog(host) == SelectSeq(completed, LAMBDA c : c.host = host)

\* the last circuitBreakerThreshold requests to the hostname that ended
\* have all failed, each within circuitBreakerWindow of the one before
Tripped(host) ==
    LET log == HostLog(host)
        n == networkClient.circuitBreakerThreshold
    IN /\ networkClient.constructed
       /\ Len(log) >= n
       /\ \A k \in (Len(log) - n + 1)..Len(log) : log[k].result = "failure"
       /\ \A k \in (Len(log) - n + 1)..(Len(log) - 1) :
             log[k + 1].at - log[k].at <= networkClient.circuitBreakerWindow

\* the step starts a call to the hostname in slot p
Starts(p, host) == calls[p].pc = "idle" /\ calls'[p].pc # "idle" /\ calls'[p].host = host

\* the call in slot p is turned away before any fetch
Rejected(p) ==
    calls'[p].pc = "thrown" /\ calls'[p].error = "Circuit breaker open" /\ calls'[p].fetches = 0

\* C30 as claimed: once the last circuitBreakerThreshold requests to a
\* hostname have failed in a chain, every further request to it is rejected
\* with 'Circuit breaker open' without a fetch.
C30_OpenRejectsEvery ==
    [][\A p \in ClientProcs, host \in Hosts :
          (Starts(p, host) /\ Tripped(host)) => Rejected(p)]_vars

\* C30, amended: once the last circuitBreakerThreshold requests to a
\* hostname that ended have failed in a chain, a further request to it made
\* within circuitBreakerWindow of the last failure is rejected with
\* 'Circuit breaker open' without a fetch; a request to a hostname none of
\* whose requests has failed is not rejected.
C30_OpenRejectsWithinWindow ==
    [][\A p \in ClientProcs, host \in Hosts :
          Starts(p, host) =>
             /\ (/\ Tripped(host)
                 /\ clock - HostLog(host)[Len(HostLog(host))].at
                       <= networkClient.circuitBreakerWindow) => Rejected(p)
             /\ (\A k \in 1..Len(completed) :
                    completed[k].host = host => completed[k].result # "failure")
                   => calls'[p].pc = "fetch" /\ calls'[p].fetches = 1]_vars

\* a call to a hostname whose circuit is open has been rejected while the
\* other hostname has a call admitted
C30_Witness ==
    \E p, q \in ClientProcs :
        /\ calls[p].pc = "thrown" /\ calls[p].error = "Circuit breaker open"
        /\ Tripped(calls[p].host)
        /\ calls[q].pc = "fetch" /\ calls[q].host # calls[p].host

\* the time of the last failure recorded for the hostname, which has one
LastFailureAt(host) ==
    LET log == HostLog(host)
        last == CHOOSE k \in 1..Len(log) :
                    /\ log[k].result = "failure"
                    /\ \A j \in (k + 1)..Len(log) : log[j].result # "failure"
    IN log[last].at

\* the hostname has a failure on record
HasFailed(host) == \E k \in 1..Len(completed) :
    completed[k].host = host /\ completed[k].result = "failure"

\* C31: when the circuit of a hostname is open and more than
\* circuitBreakerWindow has passed since its last recorded failure, the next
\* request to it issues a fetch, the circuit is closed and the failure count
\* is zero; a response that is returned closes the circuit and sets the
\* failure count to zero as well.
C31_CircuitCloses ==
    [][\A p \in ClientProcs :
          /\ \A host \in Hosts :
                (/\ Starts(p, host)
                 /\ circuitBreakers[host].isOpen
                 /\ HasFailed(host)
                 /\ clock - LastFailureAt(host) > networkClient.circuitBreakerWindow)
                   => /\ calls'[p].pc = "fetch" /\ calls'[p].fetches = 1
                      /\ ~circuitBreakers'[host].isOpen
                      /\ circuitBreakers'[host].failures = 0
          /\ (calls[p].pc = "fetch" /\ calls'[p].pc = "returned")
                => /\ ~circuitBreakers'[calls[p].host].isOpen
                   /\ circuitBreakers'[calls[p].host].failures = 0]_vars

\* a request to a hostname whose circuit had opened was let through after
\* the window and is in flight with the circuit closed
C31_Witness ==
    \E p \in ClientProcs :
        /\ calls[p].pc = "fetch"
        /\ Tripped(calls[p].host)
        /\ calls[p].issuedAt - LastFailureAt(calls[p].host)
              > networkClient.circuitBreakerWindow
        /\ ~circuitBreakers[calls[p].host].isOpen
        /\ circuitBreakers[calls[p].host].failures = 0

\* the domain has a successful fetch on record, less than cacheTtlMs ago and
\* with no clearCache for the domain or for all domains since
Fresh(names) ==
    /\ lastSuccess[<<names>>].valid
    /\ clock - lastSuccess[<<names>>].at < tomlDiscovery.cacheTtlMs

\* C32: a fetch for a domain, however it is written, issues no network
\* request while the domain has a successful fetch within cacheTtlMs that no
\* clearCache followed, and returns the document of that fetch; without
\* such a fetch, and whenever clearCache for the domain or for all domains
\* was the last call made for it, the fetch goes to the network; a fetch
\* that fails, by its response or its parse, leaves the cache as it was.
\* (stated as claimed; the code violates it)
C32_CachedWithinTtl ==
    [][/\ \A p \in LookupProcs :
             /\ (lookups[p].pc = "idle" /\ lookups'[p].pc = "await")
                   => ~Fresh(lookups'[p].names)
             /\ (lookups[p].pc = "await" /\ lookups'[p].pc = "idle"
                   /\ lastLookup'.pc = "thrown") => cache' = cache
       /\ (lastLookup' # lastLookup /\ ~lastLookup'.network)
             => /\ Fresh(lastLookup'.names)
                /\ ~lastSuccess[<<lastLookup'.names>>].cleared
                /\ lastLookup'.pc = "returned"
                /\ lastLookup'.data = lastSuccess[<<lastLookup'.names>>].data]_vars

Finishing == {"completed", "failed"}

\* the period between the last two polls, in ticks
LastGap == pollLog[Len(pollLog)] - pollLog[Len(pollLog) - 1]

\* C33: polling backs off exponentially: a poll issued after the earlier
\* polls all returned an unfinished transfer follows its predecessor by a
\* longer interval than the predecessor followed the poll before it, unless
\* that interval was already the maximum; the runtime never holds more than
\* one polling timer; and a poll that reports completion, failure or an
\* error leaves no timer running.
C33_ExponentialBackoff ==
    [][/\ ( /\ Len(pollLog') = Len(pollLog) + 1
            /\ Len(pollLog) >= 2
            /\ \A p \in PollProcs : polls[p].pc = "idle" )
          => \/ clock - pollLog[Len(pollLog)] > LastGap
             \/ LastGap * pollingDelay >= maxPollingDelay
       /\ process'.timers <= 1
       /\ \A p \in PollProcs :
             ( /\ polls[p].pc = "await" /\ polls'[p].pc = "idle"
               /\ process'._status \in Finishing \cup {"error"} )
             => ~process'.pollingInterval.active]_vars

\* C40: once the status is completed or failed it stays so and no poll is
\* issued, whatever answers arrive for polls issued earlier; after dispose()
\* no poll is issued and no status callback is called.
C40_FinishedIsFinal ==
    [][/\ process._status \in Finishing
             => process'._status = process._status /\ pollLog' = pollLog
       /\ process.disposed => pollLog' = pollLog /\ emitted' = emitted]_vars

HoldsToken(t, token) ==
    t.interactiveToken # << >> /\ t.interactiveToken[1].token = token

\* C34: getByInteractiveToken(tok) returns a transfer exactly when that
\* transfer is stored and the value of its interactive token is tok.
C34_TokenIndexExact ==
    \A token \in TokenValues : \A id \in StoreIds : \A t \in store.transfers[id] :
        t \in getByInteractiveToken(token) <=> HoldsToken(t, token)

\* C35: update(id, partial) of a stored transfer leaves a record with the
\* passed id, updatedAt at the time of the call, the partial's value in
\* every other field the partial carries and the old value elsewhere, and
\* returns it; the other transfers stay as they were. update of an id that
\* is not stored returns null and changes nothing in the store.
C35_UpdateFrame ==
    [][(storeCall' # storeCall /\ storeCall'.op = "update") =>
        LET id == storeCall'.id
            updates == storeCall'.updates
        IN  /\ \A other \in StoreIds \ {id} :
                  store'.transfers[other] = store.transfers[other]
            /\ store.transfers[id] = {} =>
                  storeCall'.result = {} /\ store' = store
            /\ \A existing \in store.transfers[id] :
                  /\ storeCall'.result = store'.transfers[id]
                  /\ Cardinality(store'.transfers[id]) = 1
                  /\ \A updated \in store'.transfers[id] :
                        /\ DOMAIN updated = DOMAIN existing
                        /\ updated.id = id
                        /\ updated.updatedAt = now
                        /\ \A f \in DOMAIN existing \ {"id", "updatedAt"} :
                              updated[f] = IF f \in DOMAIN updates
                                           THEN updates[f] ELSE existing[f]]_vars

\* a transfer stored under id1 some time ago was updated with a partial
\* that carries the id id2
C35_Witness ==
    /\ storeCall.op = "update"
    /\ storeCall.id = "id1"
    /\ "id" \in DOMAIN storeCall.updates
    /\ storeCall.updates.id = "id2"
    /\ \E t \in store.transfers["id1"] :
          t.id = "id1" /\ t.status = PENDING_ANCHOR /\ t.updatedAt > t.createdAt

\* the nonce of a challenge is registered when the challenge is built
RegisteredAt(nonce) == challenges[nonce].minTime

\* C36: the registry never reports a nonce present that is older than the
\* TTL; a verification called with a nonce older than the TTL ends with
\* invalid_challenge; after a sweep no entry older than the TTL is left;
\* add of a nonce that is present leaves the registry as it is.
C36_NonceTtl ==
    [][/\ \A nonce \in 1..Len(challenges) :
             (dateNow - RegisteredAt(nonce) > ttl) => ~NonceHas(nonce)
       /\ \A p \in AuthProcs :
             ( /\ authProc[p].pc = "lookup" /\ authProc'[p].pc = "done"
               /\ authProc[p].at - RegisteredAt(authProc[p].nonce) > ttl )
             => authProc'[p].resp.code = "invalid_challenge"
       /\ sweptAt' # sweptAt =>
             \A nonce \in DOMAIN nonceStore' : ~(dateNow - nonceStore'[nonce] > ttl)
       /\ \A nonce \in DOMAIN nonceStore : NonceAdd(nonce) = nonceStore]_vars

\* C37: a transfer shown by GET /sep24/transaction belongs to the subject
\* of the token the request was authenticated with.
C37_StatusOnlyToOwner ==
    (lastRequest.route = "GET /sep24/transaction" /\ lastRequest.resp.status = 200)
        => \A id \in lastRequest.shown :
              transfers[id].account \in { u.sub : u \in lastRequest.user }

\* C38: a GET /sep6/deposit or GET /sep6/withdraw request answered with an
\* error leaves the transfer store as it was before the request.
C38_FailedRequestLeavesStore ==
    [][( /\ lastRequest'.route \in {"GET /sep6/deposit", "GET /sep6/withdraw"}
         /\ lastRequest'.resp.status >= 400 )
       => transfers' = transfers]_vars

\* C39: when an account lists its transfers filtered by a configured asset
\* code, every stored transfer of that account whose asset code equals the
\* configured code ignoring case is in the answer.
C39_ListedByConfiguredAsset ==
    [][\A h \in FreshHeaders, code \in ConfiguredAssets :
          (GetTransactions(h, AssetQuery(code)) /\ lastRequest'.resp = Ok) =>
             \A i \in 1..Len(transfers) :
                ( /\ transfers[i].account \in { u.sub : u \in lastRequest'.user }
                  /\ ToUpperCase(transfers[i].assetCode) = ToUpperCase(code) )
                => i \in lastRequest'.shown]_vars
====
